---------------------------- MODULE Spec2Model ----------------------------
(***************************************************************************)
(* screen-sanctum: PII detection over OCR tokens (core/detection.py),      *)
(* region building and template policy (core/regions.py) and image         *)
(* redaction (core/redaction.py).                                           *)
(*                                                                         *)
(* Texts are sequences of one-character strings.  Character offsets are    *)
(* 0-based as in Python: the character at offset i of s is s[i + 1], and a *)
(* match span (start, end) is half-open.                                   *)
(***************************************************************************)
EXTENDS Integers, Sequences, FiniteSets, TLC

VARIABLES
    pc,            \* position of the invocation being modelled
    tokens,        \* detect_pii: the OCR tokens
    ignore_list,   \* detect_pii: TemplateIgnore (emails, domains)
    custom_rules,  \* detect_pii: list of CustomRule (name, regex)
    all_items,     \* detect_pii: the result list being built
    seen,          \* _detect_phones: de-duplication set
    phone_pass,    \* _detect_phones: index of the region hint being scanned
    phone_reported,\* spans the phone matcher has yielded in this call
    phone_raised,  \* _detect_phones: the last scan ended with an exception
    assembled,     \* _build_text_and_mapping: returned (full_text, char_to_token)
    detections,    \* apply_template_policy / build_regions: input items
    template,      \* apply_template_policy: RedactionTemplate
    regions,       \* output of build_regions / apply_template_policy
    item,          \* merge_boxes: input DetectedItem
    region,        \* merge_boxes: output Region
    image,         \* apply_redaction: input image
    redact_regions,\* apply_redaction: input region list
    style,         \* apply_redaction: RedactionStyle
    result,        \* apply_redaction: returned image
    frames,        \* two invocations of detect_pii: the locals of each
    matcher,       \* two invocations of detect_pii: the phone matcher in use
    match_span,    \* _tokens_for_match: the arguments start and end
    match_boxes,   \* _tokens_for_match: the returned list
    batch_images,  \* run_batch: what happens to each image found
    image_idx,     \* run_batch: idx, the index of the image of the loop
    should_stop,   \* BatchProcessor.should_stop
    emitted,       \* BatchProcessor: the signals emitted so far, in order
    blocked_dirs,  \* run_batch: output directories that cannot be created
    success_count, \* run_batch: local success_count
    error_count    \* run_batch: local error_count

vars == <<pc, tokens, ignore_list, custom_rules, all_items, seen, phone_pass,
          phone_reported, phone_raised, assembled, detections, template, regions,
          item, region, image, redact_regions, style, result,
          frames, matcher, match_span, match_boxes, batch_images, image_idx,
          should_stop, emitted, blocked_dirs, success_count, error_count>>

\* the variables of two invocations, of _tokens_for_match, of run_batch
frameVars == <<frames, matcher>>
boxVars   == <<match_span, match_boxes>>
batchVars == <<batch_images, image_idx, should_stop, emitted, blocked_dirs,
               success_count, error_count>>

\* none of the three is under way
OneCallOnly ==
    /\ frames = <<>> /\ matcher = 0
    /\ match_span = <<>> /\ match_boxes = <<>>
    /\ batch_images = <<>> /\ image_idx = 0 /\ should_stop = FALSE /\ emitted = <<>>
    /\ blocked_dirs = {} /\ success_count = 0 /\ error_count = 0

-----------------------------------------------------------------------------
(* Generic helpers                                                         *)

Min(a, b) == IF a <= b THEN a ELSE b
Max(a, b) == IF a >= b THEN a ELSE b

Range(s) == {s[k] : k \in 1..Len(s)}

\* s without its k-th element
RemoveAt(s, k) == [j \in 1..(Len(s) - 1) |-> IF j < k THEN s[j] ELSE s[j + 1]]

\* Python slice s[a:b] for 0 <= a <= b <= len(s)
Slice(s, a, b) == [j \in 1..(b - a) |-> s[a + j]]

RECURSIVE Contains(_, _)
Contains(s, x) == IF s = <<>> THEN FALSE
                  ELSE IF Head(s) = x THEN TRUE ELSE Contains(Tail(s), x)

\* a ++ b keeping the first occurrence of every element (order preserved)
RECURSIVE AppendNew(_, _)
AppendNew(a, b) ==
    IF b = <<>> THEN a
    ELSE AppendNew(IF Contains(a, Head(b)) THEN a ELSE Append(a, Head(b)), Tail(b))

-----------------------------------------------------------------------------
(* Characters                                                              *)

Lower == {"a","b","c","d","e","f","g","h","i","j","k","l","m",
          "n","o","p","q","r","s","t","u","v","w","x","y","z"}
Upper == {"A","B","C","D","E","F","G","H","I","J","K","L","M",
          "N","O","P","Q","R","S","T","U","V","W","X","Y","Z"}
Letter == Lower \cup Upper
Digit == {"0","1","2","3","4","5","6","7","8","9"}
AlNum == Letter \cup Digit
\* A character that cannot be written in a string here is named by its code
\* point in hexadecimal, four digits or more: "U+00E9" is e with acute.
CodePointName(n) ==
    LET hex == <<"0","1","2","3","4","5","6","7","8","9","A","B","C","D","E","F">>
        digit(k) == hex[((n \div k) % 16) + 1]
    IN  "U+" \o (IF n >= 1048576 THEN digit(1048576) ELSE "")
             \o (IF n >= 65536 THEN digit(65536) ELSE "")
             \o digit(4096) \o digit(256) \o digit(16) \o digit(1)
\* The characters outside ASCII that \w of Python's re admits for a str
\* pattern without re.ASCII (str.isalnum() is true), as ranges of code
\* points, both ends included: 133485 characters in 730 ranges
UnicodeWord ==
    LET ranges == {
            <<170,170>>, <<178,179>>, <<181,181>>, <<185,186>>, <<188,190>>,
            <<192,214>>, <<216,246>>, <<248,705>>, <<710,721>>, <<736,740>>,
            <<748,748>>, <<750,750>>, <<880,884>>, <<886,887>>, <<890,893>>,
            <<895,895>>, <<902,902>>, <<904,906>>, <<908,908>>, <<910,929>>,
            <<931,1013>>, <<1015,1153>>, <<1162,1327>>, <<1329,1366>>,
            <<1369,1369>>, <<1376,1416>>, <<1488,1514>>, <<1519,1522>>,
            <<1568,1610>>, <<1632,1641>>, <<1646,1647>>, <<1649,1747>>,
            <<1749,1749>>, <<1765,1766>>, <<1774,1788>>, <<1791,1791>>,
            <<1808,1808>>, <<1810,1839>>, <<1869,1957>>, <<1969,1969>>,
            <<1984,2026>>, <<2036,2037>>, <<2042,2042>>, <<2048,2069>>,
            <<2074,2074>>, <<2084,2084>>, <<2088,2088>>, <<2112,2136>>,
            <<2144,2154>>, <<2160,2183>>, <<2185,2190>>, <<2208,2249>>,
            <<2308,2361>>, <<2365,2365>>, <<2384,2384>>, <<2392,2401>>,
            <<2406,2415>>, <<2417,2432>>, <<2437,2444>>, <<2447,2448>>,
            <<2451,2472>>, <<2474,2480>>, <<2482,2482>>, <<2486,2489>>,
            <<2493,2493>>, <<2510,2510>>, <<2524,2525>>, <<2527,2529>>,
            <<2534,2545>>, <<2548,2553>>, <<2556,2556>>, <<2565,2570>>,
            <<2575,2576>>, <<2579,2600>>, <<2602,2608>>, <<2610,2611>>,
            <<2613,2614>>, <<2616,2617>>, <<2649,2652>>, <<2654,2654>>,
            <<2662,2671>>, <<2674,2676>>, <<2693,2701>>, <<2703,2705>>,
            <<2707,2728>>, <<2730,2736>>, <<2738,2739>>, <<2741,2745>>,
            <<2749,2749>>, <<2768,2768>>, <<2784,2785>>, <<2790,2799>>,
            <<2809,2809>>, <<2821,2828>>, <<2831,2832>>, <<2835,2856>>,
            <<2858,2864>>, <<2866,2867>>, <<2869,2873>>, <<2877,2877>>,
            <<2908,2909>>, <<2911,2913>>, <<2918,2927>>, <<2929,2935>>,
            <<2947,2947>>, <<2949,2954>>, <<2958,2960>>, <<2962,2965>>,
            <<2969,2970>>, <<2972,2972>>, <<2974,2975>>, <<2979,2980>>,
            <<2984,2986>>, <<2990,3001>>, <<3024,3024>>, <<3046,3058>>,
            <<3077,3084>>, <<3086,3088>>, <<3090,3112>>, <<3114,3129>>,
            <<3133,3133>>, <<3160,3162>>, <<3165,3165>>, <<3168,3169>>,
            <<3174,3183>>, <<3192,3198>>, <<3200,3200>>, <<3205,3212>>,
            <<3214,3216>>, <<3218,3240>>, <<3242,3251>>, <<3253,3257>>,
            <<3261,3261>>, <<3293,3294>>, <<3296,3297>>, <<3302,3311>>,
            <<3313,3314>>, <<3332,3340>>, <<3342,3344>>, <<3346,3386>>,
            <<3389,3389>>, <<3406,3406>>, <<3412,3414>>, <<3416,3425>>,
            <<3430,3448>>, <<3450,3455>>, <<3461,3478>>, <<3482,3505>>,
            <<3507,3515>>, <<3517,3517>>, <<3520,3526>>, <<3558,3567>>,
            <<3585,3632>>, <<3634,3635>>, <<3648,3654>>, <<3664,3673>>,
            <<3713,3714>>, <<3716,3716>>, <<3718,3722>>, <<3724,3747>>,
            <<3749,3749>>, <<3751,3760>>, <<3762,3763>>, <<3773,3773>>,
            <<3776,3780>>, <<3782,3782>>, <<3792,3801>>, <<3804,3807>>,
            <<3840,3840>>, <<3872,3891>>, <<3904,3911>>, <<3913,3948>>,
            <<3976,3980>>, <<4096,4138>>, <<4159,4169>>, <<4176,4181>>,
            <<4186,4189>>, <<4193,4193>>, <<4197,4198>>, <<4206,4208>>,
            <<4213,4225>>, <<4238,4238>>, <<4240,4249>>, <<4256,4293>>,
            <<4295,4295>>, <<4301,4301>>, <<4304,4346>>, <<4348,4680>>,
            <<4682,4685>>, <<4688,4694>>, <<4696,4696>>, <<4698,4701>>,
            <<4704,4744>>, <<4746,4749>>, <<4752,4784>>, <<4786,4789>>,
            <<4792,4798>>, <<4800,4800>>, <<4802,4805>>, <<4808,4822>>,
            <<4824,4880>>, <<4882,4885>>, <<4888,4954>>, <<4969,4988>>,
            <<4992,5007>>, <<5024,5109>>, <<5112,5117>>, <<5121,5740>>,
            <<5743,5759>>, <<5761,5786>>, <<5792,5866>>, <<5870,5880>>,
            <<5888,5905>>, <<5919,5937>>, <<5952,5969>>, <<5984,5996>>,
            <<5998,6000>>, <<6016,6067>>, <<6103,6103>>, <<6108,6108>>,
            <<6112,6121>>, <<6128,6137>>, <<6160,6169>>, <<6176,6264>>,
            <<6272,6276>>, <<6279,6312>>, <<6314,6314>>, <<6320,6389>>,
            <<6400,6430>>, <<6470,6509>>, <<6512,6516>>, <<6528,6571>>,
            <<6576,6601>>, <<6608,6618>>, <<6656,6678>>, <<6688,6740>>,
            <<6784,6793>>, <<6800,6809>>, <<6823,6823>>, <<6917,6963>>,
            <<6981,6988>>, <<6992,7001>>, <<7043,7072>>, <<7086,7141>>,
            <<7168,7203>>, <<7232,7241>>, <<7245,7293>>, <<7296,7304>>,
            <<7312,7354>>, <<7357,7359>>, <<7401,7404>>, <<7406,7411>>,
            <<7413,7414>>, <<7418,7418>>, <<7424,7615>>, <<7680,7957>>,
            <<7960,7965>>, <<7968,8005>>, <<8008,8013>>, <<8016,8023>>,
            <<8025,8025>>, <<8027,8027>>, <<8029,8029>>, <<8031,8061>>,
            <<8064,8116>>, <<8118,8124>>, <<8126,8126>>, <<8130,8132>>,
            <<8134,8140>>, <<8144,8147>>, <<8150,8155>>, <<8160,8172>>,
            <<8178,8180>>, <<8182,8188>>, <<8304,8305>>, <<8308,8313>>,
            <<8319,8329>>, <<8336,8348>>, <<8450,8450>>, <<8455,8455>>,
            <<8458,8467>>, <<8469,8469>>, <<8473,8477>>, <<8484,8484>>,
            <<8486,8486>>, <<8488,8488>>, <<8490,8493>>, <<8495,8505>>,
            <<8508,8511>>, <<8517,8521>>, <<8526,8526>>, <<8528,8585>>,
            <<9312,9371>>, <<9450,9471>>, <<10102,10131>>, <<11264,11492>>,
            <<11499,11502>>, <<11506,11507>>, <<11517,11517>>,
            <<11520,11557>>, <<11559,11559>>, <<11565,11565>>,
            <<11568,11623>>, <<11631,11631>>, <<11648,11670>>,
            <<11680,11686>>, <<11688,11694>>, <<11696,11702>>,
            <<11704,11710>>, <<11712,11718>>, <<11720,11726>>,
            <<11728,11734>>, <<11736,11742>>, <<11823,11823>>,
            <<12293,12295>>, <<12321,12329>>, <<12337,12341>>,
            <<12344,12348>>, <<12353,12438>>, <<12445,12447>>,
            <<12449,12538>>, <<12540,12543>>, <<12549,12591>>,
            <<12593,12686>>, <<12690,12693>>, <<12704,12735>>,
            <<12784,12799>>, <<12832,12841>>, <<12872,12879>>,
            <<12881,12895>>, <<12928,12937>>, <<12977,12991>>,
            <<13312,19903>>, <<19968,42124>>, <<42192,42237>>,
            <<42240,42508>>, <<42512,42539>>, <<42560,42606>>,
            <<42623,42653>>, <<42656,42735>>, <<42775,42783>>,
            <<42786,42888>>, <<42891,42954>>, <<42960,42961>>,
            <<42963,42963>>, <<42965,42969>>, <<42994,43009>>,
            <<43011,43013>>, <<43015,43018>>, <<43020,43042>>,
            <<43056,43061>>, <<43072,43123>>, <<43138,43187>>,
            <<43216,43225>>, <<43250,43255>>, <<43259,43259>>,
            <<43261,43262>>, <<43264,43301>>, <<43312,43334>>,
            <<43360,43388>>, <<43396,43442>>, <<43471,43481>>,
            <<43488,43492>>, <<43494,43518>>, <<43520,43560>>,
            <<43584,43586>>, <<43588,43595>>, <<43600,43609>>,
            <<43616,43638>>, <<43642,43642>>, <<43646,43695>>,
            <<43697,43697>>, <<43701,43702>>, <<43705,43709>>,
            <<43712,43712>>, <<43714,43714>>, <<43739,43741>>,
            <<43744,43754>>, <<43762,43764>>, <<43777,43782>>,
            <<43785,43790>>, <<43793,43798>>, <<43808,43814>>,
            <<43816,43822>>, <<43824,43866>>, <<43868,43881>>,
            <<43888,44002>>, <<44016,44025>>, <<44032,55203>>,
            <<55216,55238>>, <<55243,55291>>, <<63744,64109>>,
            <<64112,64217>>, <<64256,64262>>, <<64275,64279>>,
            <<64285,64285>>, <<64287,64296>>, <<64298,64310>>,
            <<64312,64316>>, <<64318,64318>>, <<64320,64321>>,
            <<64323,64324>>, <<64326,64433>>, <<64467,64829>>,
            <<64848,64911>>, <<64914,64967>>, <<65008,65019>>,
            <<65136,65140>>, <<65142,65276>>, <<65296,65305>>,
            <<65313,65338>>, <<65345,65370>>, <<65382,65470>>,
            <<65474,65479>>, <<65482,65487>>, <<65490,65495>>,
            <<65498,65500>>, <<65536,65547>>, <<65549,65574>>,
            <<65576,65594>>, <<65596,65597>>, <<65599,65613>>,
            <<65616,65629>>, <<65664,65786>>, <<65799,65843>>,
            <<65856,65912>>, <<65930,65931>>, <<66176,66204>>,
            <<66208,66256>>, <<66273,66299>>, <<66304,66339>>,
            <<66349,66378>>, <<66384,66421>>, <<66432,66461>>,
            <<66464,66499>>, <<66504,66511>>, <<66513,66517>>,
            <<66560,66717>>, <<66720,66729>>, <<66736,66771>>,
            <<66776,66811>>, <<66816,66855>>, <<66864,66915>>,
            <<66928,66938>>, <<66940,66954>>, <<66956,66962>>,
            <<66964,66965>>, <<66967,66977>>, <<66979,66993>>,
            <<66995,67001>>, <<67003,67004>>, <<67072,67382>>,
            <<67392,67413>>, <<67424,67431>>, <<67456,67461>>,
            <<67463,67504>>, <<67506,67514>>, <<67584,67589>>,
            <<67592,67592>>, <<67594,67637>>, <<67639,67640>>,
            <<67644,67644>>, <<67647,67669>>, <<67672,67702>>,
            <<67705,67742>>, <<67751,67759>>, <<67808,67826>>,
            <<67828,67829>>, <<67835,67867>>, <<67872,67897>>,
            <<67968,68023>>, <<68028,68047>>, <<68050,68096>>,
            <<68112,68115>>, <<68117,68119>>, <<68121,68149>>,
            <<68160,68168>>, <<68192,68222>>, <<68224,68255>>,
            <<68288,68295>>, <<68297,68324>>, <<68331,68335>>,
            <<68352,68405>>, <<68416,68437>>, <<68440,68466>>,
            <<68472,68497>>, <<68521,68527>>, <<68608,68680>>,
            <<68736,68786>>, <<68800,68850>>, <<68858,68899>>,
            <<68912,68921>>, <<69216,69246>>, <<69248,69289>>,
            <<69296,69297>>, <<69376,69415>>, <<69424,69445>>,
            <<69457,69460>>, <<69488,69505>>, <<69552,69579>>,
            <<69600,69622>>, <<69635,69687>>, <<69714,69743>>,
            <<69745,69746>>, <<69749,69749>>, <<69763,69807>>,
            <<69840,69864>>, <<69872,69881>>, <<69891,69926>>,
            <<69942,69951>>, <<69956,69956>>, <<69959,69959>>,
            <<69968,70002>>, <<70006,70006>>, <<70019,70066>>,
            <<70081,70084>>, <<70096,70106>>, <<70108,70108>>,
            <<70113,70132>>, <<70144,70161>>, <<70163,70187>>,
            <<70272,70278>>, <<70280,70280>>, <<70282,70285>>,
            <<70287,70301>>, <<70303,70312>>, <<70320,70366>>,
            <<70384,70393>>, <<70405,70412>>, <<70415,70416>>,
            <<70419,70440>>, <<70442,70448>>, <<70450,70451>>,
            <<70453,70457>>, <<70461,70461>>, <<70480,70480>>,
            <<70493,70497>>, <<70656,70708>>, <<70727,70730>>,
            <<70736,70745>>, <<70751,70753>>, <<70784,70831>>,
            <<70852,70853>>, <<70855,70855>>, <<70864,70873>>,
            <<71040,71086>>, <<71128,71131>>, <<71168,71215>>,
            <<71236,71236>>, <<71248,71257>>, <<71296,71338>>,
            <<71352,71352>>, <<71360,71369>>, <<71424,71450>>,
            <<71472,71483>>, <<71488,71494>>, <<71680,71723>>,
            <<71840,71922>>, <<71935,71942>>, <<71945,71945>>,
            <<71948,71955>>, <<71957,71958>>, <<71960,71983>>,
            <<71999,71999>>, <<72001,72001>>, <<72016,72025>>,
            <<72096,72103>>, <<72106,72144>>, <<72161,72161>>,
            <<72163,72163>>, <<72192,72192>>, <<72203,72242>>,
            <<72250,72250>>, <<72272,72272>>, <<72284,72329>>,
            <<72349,72349>>, <<72368,72440>>, <<72704,72712>>,
            <<72714,72750>>, <<72768,72768>>, <<72784,72812>>,
            <<72818,72847>>, <<72960,72966>>, <<72968,72969>>,
            <<72971,73008>>, <<73030,73030>>, <<73040,73049>>,
            <<73056,73061>>, <<73063,73064>>, <<73066,73097>>,
            <<73112,73112>>, <<73120,73129>>, <<73440,73458>>,
            <<73648,73648>>, <<73664,73684>>, <<73728,74649>>,
            <<74752,74862>>, <<74880,75075>>, <<77712,77808>>,
            <<77824,78894>>, <<82944,83526>>, <<92160,92728>>,
            <<92736,92766>>, <<92768,92777>>, <<92784,92862>>,
            <<92864,92873>>, <<92880,92909>>, <<92928,92975>>,
            <<92992,92995>>, <<93008,93017>>, <<93019,93025>>,
            <<93027,93047>>, <<93053,93071>>, <<93760,93846>>,
            <<93952,94026>>, <<94032,94032>>, <<94099,94111>>,
            <<94176,94177>>, <<94179,94179>>, <<94208,100343>>,
            <<100352,101589>>, <<101632,101640>>, <<110576,110579>>,
            <<110581,110587>>, <<110589,110590>>, <<110592,110882>>,
            <<110928,110930>>, <<110948,110951>>, <<110960,111355>>,
            <<113664,113770>>, <<113776,113788>>, <<113792,113800>>,
            <<113808,113817>>, <<119520,119539>>, <<119648,119672>>,
            <<119808,119892>>, <<119894,119964>>, <<119966,119967>>,
            <<119970,119970>>, <<119973,119974>>, <<119977,119980>>,
            <<119982,119993>>, <<119995,119995>>, <<119997,120003>>,
            <<120005,120069>>, <<120071,120074>>, <<120077,120084>>,
            <<120086,120092>>, <<120094,120121>>, <<120123,120126>>,
            <<120128,120132>>, <<120134,120134>>, <<120138,120144>>,
            <<120146,120485>>, <<120488,120512>>, <<120514,120538>>,
            <<120540,120570>>, <<120572,120596>>, <<120598,120628>>,
            <<120630,120654>>, <<120656,120686>>, <<120688,120712>>,
            <<120714,120744>>, <<120746,120770>>, <<120772,120779>>,
            <<120782,120831>>, <<122624,122654>>, <<123136,123180>>,
            <<123191,123197>>, <<123200,123209>>, <<123214,123214>>,
            <<123536,123565>>, <<123584,123627>>, <<123632,123641>>,
            <<124896,124902>>, <<124904,124907>>, <<124909,124910>>,
            <<124912,124926>>, <<124928,125124>>, <<125127,125135>>,
            <<125184,125251>>, <<125259,125259>>, <<125264,125273>>,
            <<126065,126123>>, <<126125,126127>>, <<126129,126132>>,
            <<126209,126253>>, <<126255,126269>>, <<126464,126467>>,
            <<126469,126495>>, <<126497,126498>>, <<126500,126500>>,
            <<126503,126503>>, <<126505,126514>>, <<126516,126519>>,
            <<126521,126521>>, <<126523,126523>>, <<126530,126530>>,
            <<126535,126535>>, <<126537,126537>>, <<126539,126539>>,
            <<126541,126543>>, <<126545,126546>>, <<126548,126548>>,
            <<126551,126551>>, <<126553,126553>>, <<126555,126555>>,
            <<126557,126557>>, <<126559,126559>>, <<126561,126562>>,
            <<126564,126564>>, <<126567,126570>>, <<126572,126578>>,
            <<126580,126583>>, <<126585,126588>>, <<126590,126590>>,
            <<126592,126601>>, <<126603,126619>>, <<126625,126627>>,
            <<126629,126633>>, <<126635,126651>>, <<127232,127244>>,
            <<130032,130041>>, <<131072,173791>>, <<173824,177976>>,
            <<177984,178205>>, <<178208,183969>>, <<183984,191456>>,
            <<194560,195101>>, <<196608,201546>> }
        points == UNION {a[1]..a[2] : a \in ranges}
    IN  {CodePointName(n) : n \in points}
\* \w of Python's re for a str pattern without re.ASCII: the alphanumerics
\* of Unicode and the underscore
WordChar == AlNum \cup {"_"} \cup UnicodeWord
\* \s of Python's re for a str pattern without re.ASCII: the characters for
\* which str.isspace() is true
WhiteSpace == {" ", "\t", "\n", "U+000B", "\f", "\r",
               "U+001C", "U+001D", "U+001E", "U+001F", "U+0085", "U+00A0",
               "U+1680", "U+2000", "U+2001", "U+2002", "U+2003", "U+2004",
               "U+2005", "U+2006", "U+2007", "U+2008", "U+2009", "U+200A",
               "U+2028", "U+2029", "U+202F", "U+205F", "U+3000"}

DigitVal(c) == CASE c = "0" -> 0 [] c = "1" -> 1 [] c = "2" -> 2 [] c = "3" -> 3
                 [] c = "4" -> 4 [] c = "5" -> 5 [] c = "6" -> 6 [] c = "7" -> 7
                 [] c = "8" -> 8 [] c = "9" -> 9

-----------------------------------------------------------------------------
(* Python's re: a backtracking matcher.  A pattern is a record; Ends gives  *)
(* the end offsets of the matches of pattern r that start at offset i, in   *)
(* the order the backtracking engine tries them (greedy repeats try the     *)
(* longest first, alternations left to right).  A repeated end offset is    *)
(* dropped: a later attempt at it continues exactly as the first one did.   *)

Set(chars)        == [op |-> "set", chars |-> chars]
NotSet(chars)     == [op |-> "nset", chars |-> chars]
Chr(c)            == Set({c})
WordB             == [op |-> "wordb"]
Cat(parts)        == [op |-> "cat", parts |-> parts]
Alt(parts)        == [op |-> "alt", parts |-> parts]
\* greedy r{lo,hi}; hi = -1 stands for no upper limit
Rep(r, lo, hi)    == [op |-> "rep", sub |-> r, lo |-> lo, hi |-> hi]
Plus(r)           == Rep(r, 1, -1)
Star(r)           == Rep(r, 0, -1)
Opt(r)            == Rep(r, 0, 1)

IsWordAt(s, i) == i >= 0 /\ i < Len(s) /\ s[i + 1] \in WordChar

RECURSIVE Ends(_, _, _)
RECURSIVE EndsFromAll(_, _, _)
RECURSIVE CatEnds(_, _, _, _)
RECURSIVE AltEnds(_, _, _, _)
RECURSIVE RepEnds(_, _, _, _, _, _)
RECURSIVE RepMore(_, _, _, _, _, _)

\* the ends of r started at each offset of starts, in order
EndsFromAll(r, s, starts) ==
    IF starts = <<>> THEN <<>>
    ELSE AppendNew(Ends(r, s, Head(starts)), EndsFromAll(r, s, Tail(starts)))

CatEnds(parts, k, s, starts) ==
    IF k > Len(parts) \/ starts = <<>> THEN starts
    ELSE CatEnds(parts, k + 1, s, EndsFromAll(parts[k], s, starts))

AltEnds(parts, k, s, i) ==
    IF k > Len(parts) THEN <<>>
    ELSE AppendNew(Ends(parts[k], s, i), AltEnds(parts, k + 1, s, i))

\* continuations of a repeat after one more iteration ended at each of ends
RepMore(r, lo, hi, s, ends, last) ==
    IF ends = <<>> THEN <<>>
    ELSE AppendNew(RepEnds(r, lo, hi, s, Head(ends), last),
                   RepMore(r, lo, hi, s, Tail(ends), last))

\* a greedy repeat with lo iterations still due and hi still allowed: one
\* more iteration first, then the end without it.  An iteration that is due
\* may match the empty string.  An iteration that is not due is not tried
\* where the one before it started (last; -1 for none): after an empty
\* iteration the repeat ends.  For a character class the ends are the
\* longest run of admitted characters (run, at most hi of them) first, and
\* then every shorter one down to lo.
RepEnds(r, lo, hi, s, i, last) ==
    LET less  == IF hi = -1 THEN -1 ELSE hi - 1
        more  == IF lo > 0 THEN RepMore(r, lo - 1, less, s, Ends(r, s, i), last)
                 ELSE IF hi # 0 /\ i # last
                      THEN RepMore(r, 0, less, s, Ends(r, s, i), i)
                      ELSE <<>>
        stops == {n \in 0..(Len(s) - i) :
                     \/ n = Len(s) - i
                     \/ (s[i + n + 1] \in r.chars) # (r.op = "set")}
        run   == IF i >= Len(s) THEN 0
                 ELSE CHOOSE n \in stops : \A m \in stops : n <= m
        top   == IF hi = -1 THEN run ELSE Min(run, hi)
    IN  IF r.op \in {"set", "nset"}
        THEN IF top < lo THEN <<>>
             ELSE [k \in 1..(top - lo + 1) |-> i + top - (k - 1)]
        ELSE IF lo = 0 THEN AppendNew(more, <<i>>) ELSE more

Ends(r, s, i) ==
    CASE r.op = "set"   -> IF i < Len(s) /\ s[i + 1] \in r.chars
                           THEN <<i + 1>> ELSE <<>>
      [] r.op = "nset"  -> IF i < Len(s) /\ s[i + 1] \notin r.chars
                           THEN <<i + 1>> ELSE <<>>
      [] r.op = "wordb" -> IF IsWordAt(s, i - 1) # IsWordAt(s, i)
                           THEN <<i>> ELSE <<>>
      [] r.op = "cat"   -> CatEnds(r.parts, 1, s, <<i>>)
      [] r.op = "alt"   -> AltEnds(r.parts, 1, s, i)
      [] r.op = "rep"   -> RepEnds(r.sub, r.lo, r.hi, s, i, -1)

\* re.finditer: the non-overlapping matches, scanning left to right.  After
\* an empty match the next match may not be empty at the same offset.  The
\* scan goes on at the first offset from pos on where the pattern matches.
RECURSIVE FindIterFrom(_, _, _, _)
FindIterFrom(r, s, pos, must_advance) ==
    LET EndsAt(q) == SelectSeq(Ends(r, s, q),
                               LAMBDA e : ~(must_advance /\ q = pos /\ e = q))
        Hit(q) == EndsAt(q) # <<>>
        first  == CHOOSE q \in pos..Len(s) : Hit(q) /\ \A m \in pos..(q - 1) : ~Hit(m)
        end    == Head(EndsAt(first))
    IN  IF \A q \in pos..Len(s) : ~Hit(q) THEN <<>>
        ELSE <<[start |-> first, end |-> end]>>
             \o FindIterFrom(r, s, end, end = first)

FindIter(r, s) == FindIterFrom(r, s, 0, FALSE)

\* the pattern re.escape(t): the characters of t, literally
Escape(t) == Cat([k \in 1..Len(t) |-> Chr(t[k])])

-----------------------------------------------------------------------------
(* The detection patterns of core/detection.py                             *)

\* [A-Za-z0-9._%+-]
EmailLocalChars == AlNum \cup {".", "_", "%", "+", "-"}
\* [A-Za-z0-9.-]
EmailHostChars == AlNum \cup {".", "-"}
\* the characters of the last label with the space among them
EmailTldCharsWithSpace == Letter \cup {"|", " "}

\* [A-Z|a-z]: the bar inside the brackets is a member of the class
EmailTldChars == Letter \cup {"|"}

\* \b[A-Za-z0-9._%+-]+@[A-Za-z0-9.-]+\.[A-Z|a-z]{2,}\b
EMAIL_PATTERN ==
    Cat(<<WordB, Plus(Set(EmailLocalChars)), Chr("@"), Plus(Set(EmailHostChars)),
          Chr("."), Rep(Set(EmailTldChars), 2, -1), WordB>>)

\* an octet pattern that only counts digits: [0-9]{1,3}
OctetAnyDigits == Rep(Set(Digit), 1, 3)

\* 25[0-5]|2[0-4][0-9]|[01]?[0-9][0-9]?
Octet ==
    Alt(<<Cat(<<Chr("2"), Chr("5"), Set({"0","1","2","3","4","5"})>>),
          Cat(<<Chr("2"), Set({"0","1","2","3","4"}), Set(Digit)>>),
          Cat(<<Opt(Set({"0","1"})), Set(Digit), Opt(Set(Digit))>>)>>)

\* \b(?:(?:octet)\.){3}(?:octet)\b
IP_PATTERN ==
    Cat(<<WordB, Rep(Cat(<<Octet, Chr(".")>>), 3, 3), Octet, WordB>>)

\* \b(?:[a-zA-Z0-9](?:[a-zA-Z0-9\-]{0,61}[a-zA-Z0-9])?\.)+[a-zA-Z]{2,}\b
DOMAIN_PATTERN ==
    Cat(<<WordB,
          Plus(Cat(<<Set(AlNum),
                     Opt(Cat(<<Rep(Set(AlNum \cup {"-"}), 0, 61), Set(AlNum)>>)),
                     Chr(".")>>)),
          Rep(Set(Letter), 2, -1), WordB>>)

\* \b(?:https?://|www\.)[^\s<>"\'\)]+ with re.IGNORECASE, which for a str
\* pattern folds case over Unicode: the long s (U+017F) matches s
URL_PATTERN ==
    Cat(<<WordB,
          Alt(<<Cat(<<Set({"h","H"}), Set({"t","T"}), Set({"t","T"}), Set({"p","P"}),
                      Opt(Set({"s","S","U+017F"})), Chr(":"), Chr("/"), Chr("/")>>),
                Cat(<<Set({"w","W"}), Set({"w","W"}), Set({"w","W"}), Chr(".")>>)>>),
          Plus(NotSet(WhiteSpace \cup {"<", ">", "\"", "'", ")"}))>>)

-----------------------------------------------------------------------------
(* core/detection.py: text assembly and box resolution                     *)

\* char_to_token entry of a separator space (None in the source)
NoToken == -1

\* DetectedItem
Item(pii_type, text, boxes, has_query_params) ==
    [pii_type |-> pii_type, text |-> text, boxes |-> boxes,
     has_query_params |-> has_query_params]

\* the assembler testing the text joined so far instead of the list of parts
RECURSIVE BuildFromTestingText(_, _, _, _)
BuildFromTestingText(toks, k, text, map) ==
    IF k > Len(toks) THEN [full_text |-> text, char_to_token |-> map]
    ELSE LET sep_text == IF text # <<>> THEN text \o <<" ">> ELSE text
             sep_map  == IF text # <<>> THEN Append(map, NoToken) ELSE map
             t        == toks[k].text
         IN  BuildFromTestingText(toks, k + 1, sep_text \o t,
                                  sep_map \o [j \in 1..Len(t) |-> k - 1])

\* the assembler giving the separator to the token before it
RECURSIVE BuildFromOwnedSeparator(_, _, _, _)
BuildFromOwnedSeparator(toks, k, text, map) ==
    IF k > Len(toks) THEN [full_text |-> text, char_to_token |-> map]
    ELSE LET sep_text == IF k > 1 THEN text \o <<" ">> ELSE text
             sep_map  == IF k > 1 THEN Append(map, k - 2) ELSE map
             t        == toks[k].text
         IN  BuildFromOwnedSeparator(toks, k + 1, sep_text \o t,
                                     sep_map \o [j \in 1..Len(t) |-> k - 1])

\* _build_text_and_mapping: token j (0-based) owns its characters; one
\* separator space, owned by no token, precedes every token but the first
\* (full_text_parts is non-empty once a token, even an empty one, was added)
RECURSIVE BuildFrom(_, _, _, _)
BuildFrom(toks, k, text, map) ==
    IF k > Len(toks) THEN [full_text |-> text, char_to_token |-> map]
    ELSE LET sep_text == IF k > 1 THEN text \o <<" ">> ELSE text
             sep_map  == IF k > 1 THEN Append(map, NoToken) ELSE map
             t        == toks[k].text
         IN  BuildFrom(toks, k + 1, sep_text \o t,
                       sep_map \o [j \in 1..Len(t) |-> k - 1])

BuildTextAndMapping(toks) == BuildFrom(toks, 1, <<>>, <<>>)

\* the elements of a set of integers, the largest first
RECURSIVE SortedDescending(_)
SortedDescending(S) == IF S = {} THEN <<>>
                       ELSE LET m == CHOOSE a \in S : \A b \in S : a >= b
                            IN  <<m>> \o SortedDescending(S \ {m})

\* sorted(set_of_ints) as a sequence
RECURSIVE Sorted(_)
Sorted(S) == IF S = {} THEN <<>>
             ELSE LET m == CHOOSE a \in S : \A b \in S : a <= b
                  IN  <<m>> \o Sorted(S \ {m})

\* the token indices of the characters of the span (start, end)
TokenIndices(start, end, char_to_token) ==
    {char_to_token[i + 1] : i \in {j \in start..(end - 1) :
                                     /\ j < Len(char_to_token)
                                     /\ char_to_token[j + 1] # NoToken}}

\* _tokens_for_match
TokensForMatch(start, end, char_to_token, toks) ==
    LET idx == Sorted(TokenIndices(start, end, char_to_token))
    IN  [k \in 1..Len(idx) |->
            LET token == toks[idx[k] + 1]
            IN  <<token.x, token.y, token.w, token.h>>]

\* s.split(sep)[-1]: what follows the last sep of s (s itself without sep)
RECURSIVE AfterLast(_, _)
AfterLast(s, sep) ==
    IF s = <<>> THEN <<>>
    ELSE IF Contains(Tail(s), sep) THEN AfterLast(Tail(s), sep)
    ELSE IF Head(s) = sep THEN Tail(s) ELSE s

-----------------------------------------------------------------------------
(* core/detection.py: the pattern detectors                                *)

\* the loop of _detect_emails with the ignore-emails test alone
RECURSIVE EmailItemsNoDomainTest(_, _, _, _, _, _)
EmailItemsNoDomainTest(ms, full_text, char_to_token, toks, ignore_emails, ignore_domains) ==
    IF ms = <<>> THEN <<>>
    ELSE LET m     == Head(ms)
             email == Slice(full_text, m.start, m.end)
             boxes == TokensForMatch(m.start, m.end, char_to_token, toks)
             rest  == EmailItemsNoDomainTest(Tail(ms), full_text, char_to_token, toks,
                                             ignore_emails, ignore_domains)
         IN  IF Contains(ignore_emails, email) \/ boxes = <<>> THEN rest
             ELSE <<Item("EMAIL", email, boxes, FALSE)>> \o rest

\* _detect_emails
RECURSIVE EmailItems(_, _, _, _, _, _)
EmailItems(ms, full_text, char_to_token, toks, ignore_emails, ignore_domains) ==
    IF ms = <<>> THEN <<>>
    ELSE LET m     == Head(ms)
             email == Slice(full_text, m.start, m.end)
             email_domain == IF Contains(email, "@") THEN AfterLast(email, "@")
                             ELSE <<>>
             boxes == TokensForMatch(m.start, m.end, char_to_token, toks)
             rest  == EmailItems(Tail(ms), full_text, char_to_token, toks,
                                 ignore_emails, ignore_domains)
         IN  IF Contains(ignore_emails, email) \/ Contains(ignore_domains, email_domain)
             THEN rest
             ELSE IF boxes # <<>>
             THEN <<Item("EMAIL", email, boxes, FALSE)>> \o rest
             ELSE rest

DetectEmails(full_text, char_to_token, toks, ignore_emails, ignore_domains) ==
    EmailItems(FindIter(EMAIL_PATTERN, full_text), full_text, char_to_token, toks,
               ignore_emails, ignore_domains)

\* _detect_ips
RECURSIVE IpItems(_, _, _, _)
IpItems(ms, full_text, char_to_token, toks) ==
    IF ms = <<>> THEN <<>>
    ELSE LET m     == Head(ms)
             boxes == TokensForMatch(m.start, m.end, char_to_token, toks)
             rest  == IpItems(Tail(ms), full_text, char_to_token, toks)
         IN  IF boxes # <<>>
             THEN <<Item("IP", Slice(full_text, m.start, m.end), boxes, FALSE)>> \o rest
             ELSE rest

DetectIps(full_text, char_to_token, toks) ==
    IpItems(FindIter(IP_PATTERN, full_text), full_text, char_to_token, toks)

\* the loop of _detect_urls with has_query_params left at its default
RECURSIVE UrlItemsNoQueryFlag(_, _, _, _)
UrlItemsNoQueryFlag(ms, full_text, char_to_token, toks) ==
    IF ms = <<>> THEN <<>>
    ELSE LET m     == Head(ms)
             boxes == TokensForMatch(m.start, m.end, char_to_token, toks)
             rest  == UrlItemsNoQueryFlag(Tail(ms), full_text, char_to_token, toks)
         IN  IF boxes # <<>>
             THEN <<Item("URL", Slice(full_text, m.start, m.end), boxes, FALSE)>> \o rest
             ELSE rest

\* _detect_urls
RECURSIVE UrlItems(_, _, _, _)
UrlItems(ms, full_text, char_to_token, toks) ==
    IF ms = <<>> THEN <<>>
    ELSE LET m         == Head(ms)
             url_text  == Slice(full_text, m.start, m.end)
             has_query == Contains(url_text, "?")
             boxes     == TokensForMatch(m.start, m.end, char_to_token, toks)
             rest      == UrlItems(Tail(ms), full_text, char_to_token, toks)
         IN  IF boxes # <<>>
             THEN <<Item("URL", url_text, boxes, has_query)>> \o rest
             ELSE rest

DetectUrls(full_text, char_to_token, toks) ==
    UrlItems(FindIter(URL_PATTERN, full_text), full_text, char_to_token, toks)

\* the offsets covered by a list of match spans
SpanOffsets(ms) == UNION {m.start..(m.end - 1) : m \in Range(ms)}

\* _detect_domains, lines 225-231: the offsets to exclude, found by searching
\* the full text again for the text of every item found so far
ExcludeRanges(exclude_matches, full_text) ==
    UNION {SpanOffsets(FindIter(Escape(it.text), full_text)) :
           it \in Range(exclude_matches)}

RECURSIVE DomainItems(_, _, _, _, _, _)
DomainItems(ms, full_text, char_to_token, toks, exclude_ranges, ignore_domains) ==
    IF ms = <<>> THEN <<>>
    ELSE LET m        == Head(ms)
             domain   == Slice(full_text, m.start, m.end)
             overlaps == \E i \in m.start..(m.end - 1) : i \in exclude_ranges
             boxes    == TokensForMatch(m.start, m.end, char_to_token, toks)
             rest     == DomainItems(Tail(ms), full_text, char_to_token, toks,
                                     exclude_ranges, ignore_domains)
         IN  IF Contains(ignore_domains, domain) THEN rest
             ELSE IF ~overlaps /\ boxes # <<>>
             THEN <<Item("DOMAIN", domain, boxes, FALSE)>> \o rest
             ELSE rest

\* _detect_domains
DetectDomains(full_text, char_to_token, toks, exclude_matches, ignore_domains) ==
    DomainItems(FindIter(DOMAIN_PATTERN, full_text), full_text, char_to_token, toks,
                ExcludeRanges(exclude_matches, full_text), ignore_domains)

-----------------------------------------------------------------------------
(* _detect_phones.  phonenumbers.PhoneNumberMatcher is a library outside    *)
(* the repository: a scan is an input of the model.  For one region hint it *)
(* reports, left to right, non-overlapping spans of the text that look like *)
(* a phone number; match.raw_string is the text of the span.                *)

PhoneChars == Digit \cup {"-", "(", ")", "+"}

DigitCount(text, a, b) == Cardinality({i \in a..(b - 1) : text[i + 1] \in Digit})

\* spans the matcher may report: one or more space-separated runs of phone
\* characters, starting at a digit, "+" or "(" and ending at a digit
PhoneCandidates(text) ==
    LET starts == {a \in 0..(Len(text) - 1) :
                      /\ text[a + 1] \in Digit \cup {"+", "("}
                      /\ a = 0 \/ text[a] \notin PhoneChars}
        ends   == {b \in 1..Len(text) :
                      /\ text[b] \in Digit
                      /\ b = Len(text) \/ text[b + 1] \notin PhoneChars}
    IN  {sp \in {[start |-> a, end |-> b] : a \in starts, b \in ends} :
            /\ sp.start < sp.end
            /\ \A i \in sp.start..(sp.end - 1) : text[i + 1] \in PhoneChars \cup {" "}
            /\ DigitCount(text, sp.start, sp.end) \in 7..15}

\* the spans of S in increasing order of start
RECURSIVE ByStart(_)
ByStart(S) == IF S = {} THEN <<>>
              ELSE LET m == CHOOSE a \in S : \A b \in S : a.start <= b.start
                   IN  <<m>> \o ByStart(S \ {m})

\* what one PhoneNumberMatcher scan may yield before it ends or raises
MatcherRuns(text) ==
    {ByStart(S) : S \in {R \in SUBSET PhoneCandidates(text) :
                            \A a, b \in R : a = b \/ a.end <= b.start \/ b.end <= a.start}}

\* the region hints of _detect_phones: None, 'US', 'GB', 'CA', 'AU'
PhoneRegions == <<"None", "US", "GB", "CA", "AU">>

\* the loop with matches de-duplicated by their text alone
RECURSIVE PhoneScanByText(_, _, _, _, _, _)
PhoneScanByText(ms, full_text, char_to_token, toks, seen_keys, items) ==
    IF ms = <<>> THEN [seen |-> seen_keys, items |-> items]
    ELSE LET m     == Head(ms)
             key   == <<Slice(full_text, m.start, m.end), 0, 0>>
             boxes == TokensForMatch(m.start, m.end, char_to_token, toks)
         IN  IF key \in seen_keys
             THEN PhoneScanByText(Tail(ms), full_text, char_to_token, toks,
                                  seen_keys, items)
             ELSE PhoneScanByText(Tail(ms), full_text, char_to_token, toks,
                                  seen_keys \cup {key},
                                  IF boxes # <<>>
                                  THEN Append(items, Item("PHONE", key[1], boxes, FALSE))
                                  ELSE items)

\* the body of the loop over the matches of one scan (lines 278-295)
RECURSIVE PhoneScan(_, _, _, _, _, _)
PhoneScan(ms, full_text, char_to_token, toks, seen_keys, items) ==
    IF ms = <<>> THEN [seen |-> seen_keys, items |-> items]
    ELSE LET m     == Head(ms)
             key   == <<Slice(full_text, m.start, m.end), m.start, m.end>>
             boxes == TokensForMatch(m.start, m.end, char_to_token, toks)
         IN  IF key \in seen_keys
             THEN PhoneScan(Tail(ms), full_text, char_to_token, toks, seen_keys, items)
             ELSE PhoneScan(Tail(ms), full_text, char_to_token, toks,
                            seen_keys \cup {key},
                            IF boxes # <<>>
                            THEN Append(items, Item("PHONE", key[1], boxes, FALSE))
                            ELSE items)

-----------------------------------------------------------------------------
(* detect_pii: custom rules (lines 351-371).  rule.regex is a pattern, the  *)
(* empty string (the empty concatenation) or a string re cannot compile.    *)

\* a string for which re.finditer raises re.error, such as "("
InvalidRegex == [op |-> "invalid"]
\* a string for which re.finditer raises OverflowError ("the repetition
\* number is too large"), such as "a{4294967296}"
TooLargeRegex == [op |-> "overflow"]
EmptyRegex == Cat(<<>>)

Rule(name, regex) == [name |-> name, regex |-> regex]

IsEmptyRegex(r) == r.op = "cat" /\ r.parts = <<>>

\* the loop over a rule's matches without the test for an empty box list
RECURSIVE RuleItemsUnguarded(_, _, _, _)
RuleItemsUnguarded(ms, rule, char_to_token, toks) ==
    IF ms = <<>> THEN <<>>
    ELSE <<Item("CUSTOM", rule.name,
                TokensForMatch(Head(ms).start, Head(ms).end, char_to_token, toks),
                FALSE)>>
         \o RuleItemsUnguarded(Tail(ms), rule, char_to_token, toks)

RECURSIVE RuleItems(_, _, _, _)
RuleItems(ms, rule, char_to_token, toks) ==
    IF ms = <<>> THEN <<>>
    ELSE LET m     == Head(ms)
             boxes == TokensForMatch(m.start, m.end, char_to_token, toks)
             rest  == RuleItems(Tail(ms), rule, char_to_token, toks)
         IN  IF boxes = <<>> THEN rest
             ELSE <<Item("CUSTOM", rule.name, boxes, FALSE)>> \o rest

\* the rules loop giving every item the matched substring as its text
RECURSIVE RuleItemsMatchedText(_, _, _, _)
RuleItemsMatchedText(ms, full_text, char_to_token, toks) ==
    IF ms = <<>> THEN <<>>
    ELSE LET m     == Head(ms)
             boxes == TokensForMatch(m.start, m.end, char_to_token, toks)
             rest  == RuleItemsMatchedText(Tail(ms), full_text, char_to_token, toks)
         IN  IF boxes = <<>> THEN rest
             ELSE <<Item("CUSTOM", Slice(full_text, m.start, m.end), boxes, FALSE)>>
                  \o rest

RECURSIVE CustomItemsMatchedText(_, _, _, _)
CustomItemsMatchedText(rules, full_text, char_to_token, toks) ==
    IF rules = <<>> THEN <<>>
    ELSE LET rule == Head(rules)
             rest == CustomItemsMatchedText(Tail(rules), full_text, char_to_token, toks)
         IN  IF rule.name = <<>> \/ IsEmptyRegex(rule.regex) THEN rest
             ELSE IF rule.regex.op = "invalid" THEN rest
             ELSE IF rule.regex.op = "overflow" THEN <<>>
             ELSE RuleItemsMatchedText(FindIter(rule.regex, full_text), full_text,
                                       char_to_token, toks) \o rest

\* the loop over the rules is left by an exception that line 370 does not
\* catch: a rule that is not skipped at line 354 raises OverflowError
CustomRaises(rules) ==
    \E k \in 1..Len(rules) :
        /\ rules[k].name # <<>> /\ ~IsEmptyRegex(rules[k].regex)
        /\ rules[k].regex.op = "overflow"

\* the items appended until the loop ends or is left by an exception
RECURSIVE CustomItems(_, _, _, _)
CustomItems(rules, full_text, char_to_token, toks) ==
    IF rules = <<>> THEN <<>>
    ELSE LET rule == Head(rules)
             rest == CustomItems(Tail(rules), full_text, char_to_token, toks)
         IN  IF rule.name = <<>> \/ IsEmptyRegex(rule.regex) THEN rest
             ELSE IF rule.regex.op = "invalid" THEN rest
             ELSE IF rule.regex.op = "overflow" THEN <<>>
             ELSE RuleItems(FindIter(rule.regex, full_text), rule, char_to_token, toks)
                  \o rest

-----------------------------------------------------------------------------
(* Inputs of detect_pii                                                    *)

MaxTokens == 2

TxtEmail     == <<"b","o","b","@","e","x","a","m","p","l","e",".","c","o","m">>
TxtIp        == <<"1","9","2",".","1","6","8",".","1",".","1">>
TxtBadIp     == <<"1","9","2",".","1","6","8",".","1",".","2","5","6">>
TxtPhone     == <<"5","5","5","-","1","2","3","-","4","5","6","7">>
TxtTwoPhones == <<"5","5","5","1","2","3","4",",","5","5","5","1","2","3","4">>
TxtDomain    == <<"e","x","a","m","p","l","e",".","c","o","m">>
TxtUrlChain  == <<"x","w","w","w",".","a","b","/","w","w","w",".","a","b","/","w","w","w",".","a","b","/">>

\* a URL with and a URL without query parameters
TxtUrlQuery == <<"h","t","t","p",":","/","/","a",".","b","c","/","d","?","e","=","f">>
TxtUrlPlain == <<"w","w","w",".","a","b",".","c","d">>

\* the URL without query parameters at the end of a longer word
TxtUrlInWord == <<"x">> \o TxtUrlPlain

\* the address of the corpus up to its domain
TxtLocalAt == <<"b","o","b","@">>

\* a short address
TxtShortEmail == <<"a","@","b",".","c","d">>

\* the short address after a letter outside ASCII
TxtAccentEmail == <<"U+00E9">> \o TxtShortEmail
\* URLs with a form feed inside and with the long s in the scheme
TxtUrlFormFeed == <<"h","t","t","p",":","/","/","a","\f","b">>
TxtUrlLongS    == <<"h","t","t","p","U+017F",":","/","/","a">>

\* the short address at the end of a longer address
TxtEmailInWord == <<"x">> \o TxtShortEmail

\* an address whose last label holds a vertical bar
TxtPipeEmail == <<"a","@","b",".","c","|","m">>

TxtArea      == <<"(","5","5","5",")">>
TxtLocal     == <<"1","2","3","-","4","5","6","7">>

Corpus == {TxtEmail, TxtIp, TxtDomain}

\* further lines of words: the telephone number alone, twice and after an
\* address, two numbers inside one word, one number written as two words, the address with the vertical bar, the two URLs, the URL
\* that repeats itself, the number that is no address, a URL and a domain
\* name that ends with the text of the URL, an address and an address that
\* ends with it, an address split before its domain
ExtraTexts == {<<TxtPhone>>, <<TxtPhone, TxtPhone>>, <<TxtEmail, TxtPhone>>,
               <<TxtTwoPhones>>, <<TxtTwoPhones, TxtPhone>>, <<TxtArea, TxtLocal>>,
               <<TxtPipeEmail>>, <<TxtUrlPlain, TxtUrlQuery>>, <<TxtUrlChain>>,
               <<TxtUrlChain, TxtEmail>>, <<TxtBadIp>>, <<TxtIp, TxtBadIp>>,
               <<TxtUrlPlain, TxtUrlInWord>>, <<TxtShortEmail, TxtEmailInWord>>,
               <<TxtLocalAt, TxtDomain>>, <<TxtAccentEmail>>,
               <<TxtUrlFormFeed, TxtUrlLongS>>}

\* OcrToken j (0-based) of a line of words: every token has its own rectangle
Token(text, j) == [text |-> text, x |-> 100 * j, y |-> 20,
                   w |-> 8 * Len(text), h |-> 12, conf |-> 90]

TokenSeqs == {[j \in 1..Len(texts) |-> Token(texts[j], j - 1)] :
              texts \in UNION {[1..n -> Corpus] : n \in 0..MaxTokens} \cup ExtraTexts}

\* TemplateIgnore
Ignore(emails, domains) == [emails |-> emails, domains |-> domains]

\* the email and the domain of the corpus with another capital
TxtEmailCaps  == <<"B","o","b","@","e","x","a","m","p","l","e",".","c","o","m">>
TxtDomainCaps == <<"E","x","a","m","p","l","e",".","c","o","m">>

IgnoreLists == {Ignore(<<>>, <<>>), Ignore(<<TxtEmail>>, <<>>),
                Ignore(<<>>, <<TxtDomain>>),
                Ignore(<<TxtEmailCaps>>, <<TxtDomainCaps>>),
                Ignore(<<TxtEmailInWord>>, <<>>)}

NameSep    == <<"S","E","P">>
NameNumber == <<"N","U","M">>
NameBad    == <<"B","A","D">>
NameBig    == <<"B","I","G">>
NameAt     == <<"A","T">>

\* \s+ : matches only separator spaces
RuleSep    == Rule(NameSep, Plus(Set(WhiteSpace)))
\* [0-9]*( [0-9]+)? : digit runs, over two tokens when they are adjacent;
\* matches the empty string everywhere else
RuleNumber == Rule(NameNumber,
                   Cat(<<Star(Set(Digit)), Opt(Cat(<<Chr(" "), Plus(Set(Digit))>>))>>))
RuleBad    == Rule(NameBad, InvalidRegex)
RuleTooLarge == Rule(NameBig, TooLargeRegex)
\* @
RuleAt     == Rule(NameAt, Chr("@"))
RuleNoName == Rule(<<>>, Plus(Set(Digit)))
RuleNoRegex == Rule(NameNumber, EmptyRegex)
\* (?:@?)+ : a repeat whose iterations may be empty
RuleMaybeAt == Rule(NameAt, Plus(Opt(Chr("@"))))

RuleLists == {<<>>, <<RuleNumber, RuleBad, RuleSep, RuleAt>>,
              <<RuleNoName, RuleNoRegex, RuleNumber>>,
              <<RuleSep, RuleTooLarge, RuleNumber>>, <<RuleMaybeAt>>}

-----------------------------------------------------------------------------
(* detect_pii as a sequence of steps                                       *)

Assembled == BuildTextAndMapping(tokens)

\* going on to the detectors whatever the tokens
EntryWithoutTest(toks) == "emails"

\* lines 320-321: if not tokens: return []
Entry(toks) == IF toks = <<>> THEN "returned" ELSE "emails"

\* lines 320-331
DetectStart ==
    /\ pc = "detect_pii"
    /\ pc' = Entry(tokens)
    /\ all_items' = <<>>
    /\ UNCHANGED <<frameVars, boxVars, batchVars>>
    /\ UNCHANGED <<tokens, ignore_list, custom_rules, seen, phone_pass, phone_reported,
                   phone_raised, assembled, detections,
                   template, regions, item, region, image, redact_regions, style,
                   result>>

\* line 337
StepEmails ==
    /\ pc = "emails"
    /\ all_items' = all_items \o DetectEmails(Assembled.full_text,
                        Assembled.char_to_token, tokens,
                        ignore_list.emails, ignore_list.domains)
    /\ pc' = "ips"
    /\ UNCHANGED <<frameVars, boxVars, batchVars>>
    /\ UNCHANGED <<tokens, ignore_list, custom_rules, seen, phone_pass, phone_reported,
                   phone_raised, assembled, detections,
                   template, regions, item, region, image, redact_regions, style,
                   result>>

\* line 340
StepIps ==
    /\ pc = "ips"
    /\ all_items' = all_items \o DetectIps(Assembled.full_text,
                        Assembled.char_to_token, tokens)
    /\ pc' = "urls"
    /\ UNCHANGED <<frameVars, boxVars, batchVars>>
    /\ UNCHANGED <<tokens, ignore_list, custom_rules, seen, phone_pass, phone_reported,
                   phone_raised, assembled, detections,
                   template, regions, item, region, image, redact_regions, style,
                   result>>

\* line 343
StepUrls ==
    /\ pc = "urls"
    /\ all_items' = all_items \o DetectUrls(Assembled.full_text,
                        Assembled.char_to_token, tokens)
    /\ pc' = "domains"
    /\ UNCHANGED <<frameVars, boxVars, batchVars>>
    /\ UNCHANGED <<tokens, ignore_list, custom_rules, seen, phone_pass, phone_reported,
                   phone_raised, assembled, detections,
                   template, regions, item, region, image, redact_regions, style,
                   result>>

\* line 346; then _detect_phones starts with an empty seen set (lines 271-272)
StepDomains ==
    /\ pc = "domains"
    /\ all_items' = all_items \o DetectDomains(Assembled.full_text,
                        Assembled.char_to_token, tokens, all_items,
                        ignore_list.domains)
    /\ pc' = "phones"
    /\ seen' = {}
    /\ phone_pass' = 1
    /\ phone_reported' = {}
    /\ phone_raised' = FALSE
    /\ UNCHANGED <<frameVars, boxVars, batchVars>>
    /\ UNCHANGED <<tokens, ignore_list, custom_rules, assembled, detections,
                   template, regions, item, region, image, redact_regions, style,
                   result>>

\* one iteration of the loop over the region hints (lines 276-298): the scan
\* yields the matches ms, after which it ends or raises (raised); the loop
\* body has run for every match yielded, and either way the loop goes on to
\* the next hint (lines 296-298)
StepPhonePass ==
    /\ pc = "phones"
    /\ phone_pass <= Len(PhoneRegions)
    /\ \E ms \in MatcherRuns(Assembled.full_text), raised \in BOOLEAN :
          LET r == PhoneScan(ms, Assembled.full_text, Assembled.char_to_token,
                             tokens, seen, <<>>)
          IN  /\ seen' = r.seen
              /\ all_items' = all_items \o r.items
              /\ phone_reported' = phone_reported \cup Range(ms)
              /\ phone_raised' = raised
    /\ phone_pass' = phone_pass + 1
    /\ pc' = IF phone_pass = Len(PhoneRegions) THEN "custom" ELSE "phones"
    /\ UNCHANGED <<frameVars, boxVars, batchVars>>
    /\ UNCHANGED <<tokens, ignore_list, custom_rules, assembled, detections,
                   template, regions, item, region, image, redact_regions, style,
                   result>>

\* lines 351-373: detect_pii returns all_items, or is left by the exception
\* of a rule
StepCustom ==
    /\ pc = "custom"
    /\ all_items' = all_items \o CustomItems(custom_rules, Assembled.full_text,
                        Assembled.char_to_token, tokens)
    /\ pc' = IF CustomRaises(custom_rules) THEN "raised" ELSE "returned"
    /\ UNCHANGED <<frameVars, boxVars, batchVars>>
    /\ UNCHANGED <<tokens, ignore_list, custom_rules, seen, phone_pass, phone_reported,
                   phone_raised, assembled, detections,
                   template, regions, item, region, image, redact_regions, style,
                   result>>

InitDetect ==
    /\ pc = "detect_pii"
    /\ tokens \in TokenSeqs
    /\ \/ ignore_list \in IgnoreLists /\ custom_rules = <<>>
       \/ ignore_list = Ignore(<<>>, <<>>) /\ custom_rules \in RuleLists
    /\ all_items = <<>> /\ seen = {} /\ phone_pass = 0 /\ phone_reported = {}
    /\ phone_raised = FALSE /\ assembled = <<>>
    /\ OneCallOnly
    /\ detections = <<>> /\ template = <<>> /\ regions = <<>>
    /\ item = <<>> /\ region = <<>>
    /\ image = <<>> /\ redact_regions = <<>> /\ style = "" /\ result = <<>>

NextDetect == \/ DetectStart \/ StepEmails \/ StepIps \/ StepUrls \/ StepDomains
              \/ StepPhonePass \/ StepCustom

SpecDetect == InitDetect /\ [][NextDetect]_vars

-----------------------------------------------------------------------------
(* core/regions.py                                                         *)

\* Region
Region(pii_type, text, x, y, w, h, selected, manual) ==
    [pii_type |-> pii_type, text |-> text, x |-> x, y |-> y, w |-> w, h |-> h,
     selected |-> selected, manual |-> manual]

\* min(...) and max(...) of a non-empty list of integers
RECURSIVE MinOf(_)
MinOf(ns) == IF Len(ns) = 1 THEN ns[1] ELSE Min(Head(ns), MinOf(Tail(ns)))

RECURSIVE MaxOf(_)
MaxOf(ns) == IF Len(ns) = 1 THEN ns[1] ELSE Max(Head(ns), MaxOf(Tail(ns)))

\* a merge that takes the corner of the first box for x and y
MergeBoxesFromFirstBox(it) ==
    IF it.boxes = <<>>
    THEN Region(it.pii_type, it.text, 0, 0, 0, 0, TRUE, FALSE)
    ELSE LET max_x == MaxOf([k \in 1..Len(it.boxes) |-> it.boxes[k][1] + it.boxes[k][3]])
             max_y == MaxOf([k \in 1..Len(it.boxes) |-> it.boxes[k][2] + it.boxes[k][4]])
         IN  Region(it.pii_type, it.text, it.boxes[1][1], it.boxes[1][2],
                    max_x - it.boxes[1][1], max_y - it.boxes[1][2], TRUE, FALSE)

\* a merge that takes the widest and the tallest box for the size
MergeBoxesLargestBox(it) ==
    IF it.boxes = <<>>
    THEN Region(it.pii_type, it.text, 0, 0, 0, 0, TRUE, FALSE)
    ELSE Region(it.pii_type, it.text,
                MinOf([k \in 1..Len(it.boxes) |-> it.boxes[k][1]]),
                MinOf([k \in 1..Len(it.boxes) |-> it.boxes[k][2]]),
                MaxOf([k \in 1..Len(it.boxes) |-> it.boxes[k][3]]),
                MaxOf([k \in 1..Len(it.boxes) |-> it.boxes[k][4]]), TRUE, FALSE)

\* merge_boxes
MergeBoxes(it) ==
    IF it.boxes = <<>>
    THEN Region(it.pii_type, it.text, 0, 0, 0, 0, TRUE, FALSE)
    ELSE LET min_x == MinOf([k \in 1..Len(it.boxes) |-> it.boxes[k][1]])
             min_y == MinOf([k \in 1..Len(it.boxes) |-> it.boxes[k][2]])
             max_x == MaxOf([k \in 1..Len(it.boxes) |-> it.boxes[k][1] + it.boxes[k][3]])
             max_y == MaxOf([k \in 1..Len(it.boxes) |-> it.boxes[k][2] + it.boxes[k][4]])
         IN  Region(it.pii_type, it.text, min_x, min_y,
                    max_x - min_x, max_y - min_y, TRUE, FALSE)

\* a build that leaves out the items without boxes
RECURSIVE BuildRegionsSkippingBoxless(_)
BuildRegionsSkippingBoxless(items) ==
    IF items = <<>> THEN <<>>
    ELSE (IF Head(items).boxes = <<>> THEN <<>> ELSE <<MergeBoxes(Head(items))>>)
         \o BuildRegionsSkippingBoxless(Tail(items))

\* the loop of build_regions (lines 80-84)
RECURSIVE BuildRegionsFrom(_, _)
BuildRegionsFrom(items, acc) ==
    IF items = <<>> THEN acc
    ELSE BuildRegionsFrom(Tail(items), Append(acc, MergeBoxes(Head(items))))

\* build_regions
BuildRegions(items) == BuildRegionsFrom(items, <<>>)

\* the selected flag the policy loop gives region r of detection d
\* (lines 136-146)
PolicySelected(r, d, tmpl) ==
    IF r.pii_type = "URL"
    THEN IF tmpl.url_flag_query_params /\ d.has_query_params THEN TRUE
         ELSE IF tmpl.url_flag_query_params /\ ~d.has_query_params THEN FALSE
         ELSE TRUE
    ELSE r.selected

\* a policy that never looks at the template
ApplyTemplatePolicyNoFlag(dets, tmpl) == BuildRegions(dets)

\* a policy that drops the regions it deselects
ApplyTemplatePolicyFiltering(dets, tmpl) ==
    LET rs == BuildRegions(dets)
    IN  SelectSeq([i \in 1..Len(rs) |->
                      [rs[i] EXCEPT !.selected = PolicySelected(rs[i], dets[i], tmpl)]],
                  LAMBDA r : r.selected)

\* apply_template_policy
ApplyTemplatePolicy(dets, tmpl) ==
    LET rs == BuildRegions(dets)
    IN  [i \in 1..Len(rs) |->
            [rs[i] EXCEPT !.selected = PolicySelected(rs[i], dets[i], tmpl)]]

-----------------------------------------------------------------------------
(* Inputs of merge_boxes, build_regions and apply_template_policy          *)

MaxBoxes == 3
MaxItems == 2

\* token rectangles (x, y, w, h): a line of three words, a word on the next
\* line, a word overlapping the first, an empty rectangle
BoxPool == {<<0, 0, 10, 10>>, <<20, 0, 10, 10>>, <<40, 0, 30, 10>>,
            <<5, 12, 20, 8>>, <<2, 3, 4, 5>>, <<15, 4, 0, 0>>}

BoxLists == UNION {[1..n -> BoxPool] : n \in 0..MaxBoxes}


MergeItems == {Item("PHONE", TxtPhone, boxes, FALSE) : boxes \in BoxLists}

ItemPool ==
    {Item("URL", TxtUrlQuery, <<<<0, 0, 10, 10>>>>, TRUE),
     Item("URL", TxtUrlPlain, <<<<20, 0, 10, 10>>>>, FALSE),
     Item("EMAIL", TxtEmail, <<<<40, 0, 30, 10>>>>, FALSE),
     Item("PHONE", TxtPhone, <<<<0, 0, 10, 10>>, <<5, 12, 20, 8>>>>, FALSE),
     Item("CUSTOM", NameNumber, <<>>, FALSE)}

ItemLists == UNION {[1..n -> ItemPool] : n \in 0..MaxItems}

\* RedactionTemplate, as far as the policy reads it
Templates == {[url_flag_query_params |-> f] : f \in BOOLEAN}

-----------------------------------------------------------------------------
(* Calls of merge_boxes, build_regions and apply_template_policy           *)

MergeCall ==
    /\ pc = "merge_boxes"
    /\ region' = MergeBoxes(item)
    /\ pc' = "merged"
    /\ UNCHANGED <<frameVars, boxVars, batchVars>>
    /\ UNCHANGED <<tokens, ignore_list, custom_rules, all_items, seen, phone_pass,
                   phone_reported, phone_raised, assembled, detections, template, regions, item, image,
                   redact_regions, style, result>>

InitMerge ==
    /\ pc = "merge_boxes"
    /\ item \in MergeItems
    /\ region = <<>>
    /\ tokens = <<>> /\ ignore_list = <<>> /\ custom_rules = <<>>
    /\ all_items = <<>> /\ seen = {} /\ phone_pass = 0 /\ phone_reported = {}
    /\ phone_raised = FALSE /\ assembled = <<>>
    /\ OneCallOnly
    /\ detections = <<>> /\ template = <<>> /\ regions = <<>>
    /\ image = <<>> /\ redact_regions = <<>> /\ style = "" /\ result = <<>>

NextMerge == MergeCall

SpecMerge == InitMerge /\ [][NextMerge]_vars

BuildCall ==
    /\ pc = "regions"
    /\ regions' = BuildRegions(detections)
    /\ pc' = "built"
    /\ UNCHANGED <<frameVars, boxVars, batchVars>>
    /\ UNCHANGED <<tokens, ignore_list, custom_rules, all_items, seen, phone_pass,
                   phone_reported, phone_raised, assembled, detections, template, item, region, image,
                   redact_regions, style, result>>

PolicyCall ==
    /\ pc = "regions"
    /\ regions' = ApplyTemplatePolicy(detections, template)
    /\ pc' = "policy_applied"
    /\ UNCHANGED <<frameVars, boxVars, batchVars>>
    /\ UNCHANGED <<tokens, ignore_list, custom_rules, all_items, seen, phone_pass,
                   phone_reported, phone_raised, assembled, detections, template, item, region, image,
                   redact_regions, style, result>>

InitRegions ==
    /\ pc = "regions"
    /\ detections \in ItemLists
    /\ template \in Templates
    /\ regions = <<>>
    /\ tokens = <<>> /\ ignore_list = <<>> /\ custom_rules = <<>>
    /\ all_items = <<>> /\ seen = {} /\ phone_pass = 0 /\ phone_reported = {}
    /\ phone_raised = FALSE /\ assembled = <<>>
    /\ OneCallOnly
    /\ item = <<>> /\ region = <<>>
    /\ image = <<>> /\ redact_regions = <<>> /\ style = "" /\ result = <<>>

NextRegions == BuildCall \/ PolicyCall

SpecRegions == InitRegions /\ [][NextRegions]_vars

-----------------------------------------------------------------------------
(* core/redaction.py.  An image is its width, its height and the value of   *)
(* every pixel <<column, row>>, both counted from 0; one channel, 0..255.   *)
(* Images are objects: owner tells the object the caller passed in          *)
(* ("caller") from an object created during the call ("callee").  paste and *)
(* ImageDraw write into the object they are given.                          *)

Coords(w, h) == (0..(w - 1)) \X (0..(h - 1))

\* a new image object
Img(w, h, px) == [width |-> w, height |-> h, px |-> px, owner |-> "callee"]

\* no copy: the same object
ImageAlias(img) == img

\* Image.copy(): a new object with the same pixels
ImageCopy(img) == [img EXCEPT !.owner = "callee"]

\* fill="black"
Black == 0

\* pixel_size of _apply_pixelate
PixelSize == 10

\* Image.crop((x, y, x2, y2)): columns x..x2-1, rows y..y2-1; Pillow gives 0
\* for the part of the box that lies outside the image
Crop(img, x, y, x2, y2) ==
    Img(x2 - x, y2 - y,
        [p \in Coords(x2 - x, y2 - y) |->
            IF <<p[1] + x, p[2] + y>> \in DOMAIN img.px
            THEN img.px[<<p[1] + x, p[2] + y>>] ELSE 0])

\* paste writing one column and one row more than the pasted image has
PasteOneBeyond(img, src, x, y) ==
    [img EXCEPT !.px =
        [p \in DOMAIN img.px |->
            IF /\ x <= p[1] /\ p[1] <= x + src.width
               /\ y <= p[2] /\ p[2] <= y + src.height
            THEN src.px[<<Min(p[1] - x, src.width - 1), Min(p[2] - y, src.height - 1)>>]
            ELSE img.px[p]]]

\* img.paste(src, (x, y)): writes into img; the part of src that falls
\* outside img is dropped
Paste(img, src, x, y) ==
    [img EXCEPT !.px =
        [p \in DOMAIN img.px |->
            IF /\ x <= p[1] /\ p[1] < x + src.width
               /\ y <= p[2] /\ p[2] < y + src.height
            THEN src.px[<<p[1] - x, p[2] - y>>]
            ELSE img.px[p]]]

\* ImageDraw.Draw(img).rectangle([x, y, x2, y2], fill): writes into img;
\* Pillow's bounding box includes both end points, and drawing is clipped to
\* the image
DrawRectangle(img, x, y, x2, y2, fill) ==
    [img EXCEPT !.px =
        [p \in DOMAIN img.px |->
            IF x <= p[1] /\ p[1] <= x2 /\ y <= p[2] /\ p[2] <= y2
            THEN fill ELSE img.px[p]]]

\* Image.resize((w, h), Image.NEAREST): output pixel (i, j) is the input pixel
\* at floor((i + 0.5) * width / w), floor((j + 0.5) * height / h)
ResizeNearest(img, w, h) ==
    Img(w, h,
        [p \in Coords(w, h) |->
            img.px[<<((2 * p[1] + 1) * img.width) \div (2 * w),
                     ((2 * p[2] + 1) * img.height) \div (2 * h)>>]])

RECURSIVE SumPixels(_, _)
SumPixels(px, S) ==
    IF S = {} THEN 0
    ELSE LET p == CHOOSE q \in S : TRUE IN px[p] + SumPixels(px, S \ {p})

\* ImageFilter.GaussianBlur(radius=15) on a crop: Pillow's kernel is outside
\* the repository; with a radius that exceeds the crop every output pixel is
\* a weighted mean of the whole crop, taken here as the plain mean
GaussianBlur(img) ==
    Img(img.width, img.height,
        [p \in DOMAIN img.px |->
            SumPixels(img.px, DOMAIN img.px) \div (img.width * img.height)])

\* _apply_blur
ApplyBlur(img, x, y, x2, y2) ==
    Paste(ImageCopy(img), GaussianBlur(Crop(img, x, y, x2, y2)), x, y)

\* _apply_solid
ApplySolid(img, x, y, x2, y2) == DrawRectangle(ImageCopy(img), x, y, x2, y2, Black)

\* _apply_pixelate
ApplyPixelate(img, x, y, x2, y2) ==
    LET rgn          == Crop(img, x, y, x2, y2)
        width        == x2 - x
        height       == y2 - y
        small_width  == Max(1, width \div PixelSize)
        small_height == Max(1, height \div PixelSize)
        small        == ResizeNearest(rgn, small_width, small_height)
        pixelated    == ResizeNearest(small, width, height)
    IN  Paste(ImageCopy(img), pixelated, x, y)

\* RedactionStyle
Styles == {"BLUR", "SOLID", "PIXELATE"}

\* the body of the loop skipping no region for the SOLID style
RedactOneSolidUnskipped(res, r, st) ==
    LET x  == Max(0, r.x)
        y  == Max(0, r.y)
        x2 == Min(res.width, r.x + r.w)
        y2 == Min(res.height, r.y + r.h)
    IN  IF st = "SOLID" THEN ApplySolid(res, x, y, x2, y2)
        ELSE IF x2 <= x \/ y2 <= y THEN res
        ELSE IF st = "BLUR" THEN ApplyBlur(res, x, y, x2, y2)
        ELSE ApplyPixelate(res, x, y, x2, y2)

\* the body of the loop handing the rectangle of the region on as it is
RedactOneUnclamped(res, r, st) ==
    IF r.w <= 0 \/ r.h <= 0 THEN res
    ELSE LET x  == r.x
             y  == r.y
             x2 == r.x + r.w
             y2 == r.y + r.h
         IN  IF x >= res.width \/ y >= res.height \/ x2 <= 0 \/ y2 <= 0 THEN res
             ELSE CASE st = "BLUR"     -> ApplyBlur(res, x, y, x2, y2)
                    [] st = "SOLID"    -> ApplySolid(res, x, y, x2, y2)
                    [] st = "PIXELATE" -> ApplyPixelate(res, x, y, x2, y2)

\* the body of the loop of apply_redaction for one region (lines 36-55)
RedactOne(res, r, st) ==
    IF r.w <= 0 \/ r.h <= 0 THEN res
    ELSE LET x  == Max(0, r.x)
             y  == Max(0, r.y)
             x2 == Min(res.width, r.x + r.w)
             y2 == Min(res.height, r.y + r.h)
         IN  IF x >= res.width \/ y >= res.height \/ x2 <= x \/ y2 <= y THEN res
             ELSE CASE st = "BLUR"     -> ApplyBlur(res, x, y, x2, y2)
                    [] st = "SOLID"    -> ApplySolid(res, x, y, x2, y2)
                    [] st = "PIXELATE" -> ApplyPixelate(res, x, y, x2, y2)

RECURSIVE RedactAll(_, _, _)
RedactAll(res, rs, st) ==
    IF rs = <<>> THEN res
    ELSE RedactAll(RedactOne(res, Head(rs), st), Tail(rs), st)

\* apply_redaction
ApplyRedaction(img, rs, st) ==
    LET selected_regions == SelectSeq(rs, LAMBDA r : r.selected)
    IN  RedactAll(ImageCopy(img), selected_regions, st)

-----------------------------------------------------------------------------
(* Inputs of apply_redaction                                               *)

ImgW == 4
ImgH == 3
MaxRegions == 2

\* an image whose pixels all differ, none black, and a board of black and
\* white pixels
Images ==
    {[im EXCEPT !.owner = "caller"] : im \in
        {Img(ImgW, ImgH, [p \in Coords(ImgW, ImgH) |-> 10 * (p[1] + ImgW * p[2]) + 5]),
         Img(ImgW, ImgH, [p \in Coords(ImgW, ImgH) |->
                             IF (p[1] + p[2]) % 2 = 0 THEN 255 ELSE Black])}}

\* rectangles (x, y, w, h): inside the image with room on every side, the
\* pixel right of it, over the top left corner, over the bottom right
\* corner, the whole image, without width, right of the image, left of it,
\* below the image, of negative height, over the left edge
RectPool ==
    {<<1, 1, 2, 1>>, <<3, 1, 1, 1>>, <<-1, -1, 2, 2>>,
     <<ImgW - 1, ImgH - 1, 3, 3>>, <<0, 0, ImgW, ImgH>>, <<-1, 0, 3, 2>>,
     <<1, 1, 0, 2>>, <<ImgW, 0, 2, 2>>, <<-3, 0, 2, 2>>,
     <<0, ImgH, 2, 2>>, <<1, 0, 2, -1>>}

RegionPool ==
    {Region("EMAIL", TxtEmail, r[1], r[2], r[3], r[4], sel, FALSE) :
        r \in RectPool, sel \in BOOLEAN}

RegionLists == UNION {[1..n -> RegionPool] : n \in 0..MaxRegions}

\* the call returns result; what was written into the caller's object, if
\* anything, shows in image
RedactCall ==
    /\ pc = "apply_redaction"
    /\ result' = ApplyRedaction(image, redact_regions, style)
    /\ image' = IF result'.owner = "caller" THEN result' ELSE image
    /\ pc' = "redacted"
    /\ UNCHANGED <<frameVars, boxVars, batchVars>>
    /\ UNCHANGED <<tokens, ignore_list, custom_rules, all_items, seen, phone_pass,
                   phone_reported, phone_raised, assembled, detections, template,
                   regions, item, region, redact_regions, style>>

InitRedact ==
    /\ pc = "apply_redaction"
    /\ image \in Images
    /\ redact_regions \in RegionLists
    /\ style \in Styles
    /\ result = <<>>
    /\ tokens = <<>> /\ ignore_list = <<>> /\ custom_rules = <<>>
    /\ all_items = <<>> /\ seen = {} /\ phone_pass = 0 /\ phone_reported = {}
    /\ phone_raised = FALSE /\ assembled = <<>>
    /\ OneCallOnly
    /\ detections = <<>> /\ template = <<>> /\ regions = <<>>
    /\ item = <<>> /\ region = <<>>

NextRedact == RedactCall

SpecRedact == InitRedact /\ [][NextRedact]_vars

-----------------------------------------------------------------------------
(* _build_text_and_mapping called on its own                               *)

MaxWords == 3

\* token texts: none, one character, two characters, a text holding a space
WordPool == {<<>>, <<"a">>, <<"b","c">>, <<"d"," ","e">>}

WordSeqs == {[j \in 1..Len(texts) |-> Token(texts[j], j - 1)] :
             texts \in UNION {[1..n -> WordPool] : n \in 0..MaxWords}}

AssembleCall ==
    /\ pc = "assemble"
    /\ assembled' = BuildTextAndMapping(tokens)
    /\ pc' = "assembled"
    /\ UNCHANGED <<frameVars, boxVars, batchVars>>
    /\ UNCHANGED <<tokens, ignore_list, custom_rules, all_items, seen, phone_pass,
                   phone_reported, phone_raised, detections, template, regions,
                   item, region, image, redact_regions, style, result>>

InitAssemble ==
    /\ pc = "assemble"
    /\ tokens \in WordSeqs
    /\ assembled = <<>>
    /\ ignore_list = <<>> /\ custom_rules = <<>>
    /\ all_items = <<>> /\ seen = {} /\ phone_pass = 0 /\ phone_reported = {}
    /\ phone_raised = FALSE
    /\ OneCallOnly
    /\ detections = <<>> /\ template = <<>> /\ regions = <<>>
    /\ item = <<>> /\ region = <<>>
    /\ image = <<>> /\ redact_regions = <<>> /\ style = "" /\ result = <<>>

NextAssemble == AssembleCall

SpecAssemble == InitAssemble /\ [][NextAssemble]_vars

-----------------------------------------------------------------------------
(* _tokens_for_match called on its own, with the index                      *)
(* _build_text_and_mapping made of the tokens                              *)

\* spans (start, end) of a text of n characters, some of them empty, some
\* reaching past the end of the text
Spans(n) == {sp \in (0..(n + 1)) \X (0..(n + 2)) : sp[1] <= sp[2]}

BoxesCall ==
    /\ pc = "tokens_for_match"
    /\ match_boxes' = TokensForMatch(match_span[1], match_span[2],
                                     assembled.char_to_token, tokens)
    /\ pc' = "resolved"
    /\ UNCHANGED <<tokens, ignore_list, custom_rules, all_items, seen, phone_pass,
                   phone_reported, phone_raised, assembled, detections, template,
                   regions, item, region, image, redact_regions, style, result>>
    /\ UNCHANGED <<frameVars, match_span, batchVars>>

InitBoxes ==
    /\ pc = "tokens_for_match"
    /\ tokens \in WordSeqs
    /\ assembled = BuildTextAndMapping(tokens)
    /\ match_span \in Spans(Len(assembled.full_text))
    /\ match_boxes = <<>>
    /\ ignore_list = <<>> /\ custom_rules = <<>>
    /\ all_items = <<>> /\ seen = {} /\ phone_pass = 0 /\ phone_reported = {}
    /\ phone_raised = FALSE
    /\ detections = <<>> /\ template = <<>> /\ regions = <<>>
    /\ item = <<>> /\ region = <<>>
    /\ image = <<>> /\ redact_regions = <<>> /\ style = "" /\ result = <<>>
    /\ frames = <<>> /\ matcher = 0
    /\ batch_images = <<>> /\ image_idx = 0 /\ should_stop = FALSE /\ emitted = <<>>
    /\ blocked_dirs = {} /\ success_count = 0 /\ error_count = 0

NextBoxes == BoxesCall

SpecBoxes == InitBoxes /\ [][NextBoxes]_vars

-----------------------------------------------------------------------------
(* Two invocations of detect_pii under way at once.  Every invocation has    *)
(* its own parameters and locals (a frame); the patterns are module          *)
(* constants nobody writes.  PhoneNumberMatcher is a function of its         *)
(* arguments: matcher tells which one the library is.                        *)

oneCallVars == <<pc, tokens, ignore_list, custom_rules, all_items, seen, phone_pass,
                 phone_reported, phone_raised, assembled, detections, template,
                 regions, item, region, image, redact_regions, style, result>>

\* the fullest scan of a text
Fullest(text) ==
    LET runs == MatcherRuns(text)
    IN  CHOOSE ms \in runs : \A o \in runs : Len(o) <= Len(ms)

\* three matchers: the first reports every number for every hint, the second
\* none without a hint, the third raises for the hint 'GB' after one number
Matchers == 1..3

\* what PhoneNumberMatcher(text, PhoneRegions[h]) yields with matcher mt
Scan(mt, text, h) ==
    CASE mt = 2 /\ PhoneRegions[h] = "None" -> [ms |-> <<>>, raised |-> FALSE]
      [] mt = 3 /\ PhoneRegions[h] = "GB" ->
            [ms |-> SubSeq(Fullest(text), 1, 1), raised |-> TRUE]
      [] OTHER -> [ms |-> Fullest(text), raised |-> FALSE]

\* _detect_phones from hint h on
RECURSIVE PhonePasses(_, _, _, _, _, _)
PhonePasses(mt, h, a, toks, seen_keys, items) ==
    IF h > Len(PhoneRegions) THEN items
    ELSE LET r == PhoneScan(Scan(mt, a.full_text, h).ms, a.full_text,
                            a.char_to_token, toks, seen_keys, <<>>)
         IN  PhonePasses(mt, h + 1, a, toks, r.seen, items \o r.items)

\* detect_pii run from its first line to its last
DetectPii(mt, toks, ign, rules) ==
    IF toks = <<>> THEN [pc |-> "returned", all_items |-> <<>>]
    ELSE LET a  == BuildTextAndMapping(toks)
             e  == DetectEmails(a.full_text, a.char_to_token, toks,
                                ign.emails, ign.domains)
             i  == e \o DetectIps(a.full_text, a.char_to_token, toks)
             u  == i \o DetectUrls(a.full_text, a.char_to_token, toks)
             d  == u \o DetectDomains(a.full_text, a.char_to_token, toks, u,
                                      ign.domains)
             p  == d \o PhonePasses(mt, 1, a, toks, {}, <<>>)
         IN  [pc |-> IF CustomRaises(rules) THEN "raised" ELSE "returned",
              all_items |-> p \o CustomItems(rules, a.full_text,
                                             a.char_to_token, toks)]

\* every invocation reading and writing the set of the first one
SeenOwnerShared(c) == 1

\* line 272: seen is a local of the invocation
SeenOwner(c) == c

Calls == 1..2

Frame(toks, ign, rules) ==
    [pc |-> "detect_pii", tokens |-> toks, ignore_list |-> ign,
     custom_rules |-> rules, all_items |-> <<>>, seen |-> {}, phone_pass |-> 0]

\* arguments of an invocation: the texts of the tokens, the ignore list,
\* the custom rules
CallArgs ==
    {<<<<TxtPhone>>, Ignore(<<>>, <<>>), <<>>>>,
     <<<<TxtTwoPhones>>, Ignore(<<>>, <<>>), <<>>>>,
     <<<<TxtEmail, TxtPhone>>, Ignore(<<>>, <<>>), <<RuleBad, RuleAt>>>>,
     <<<<TxtEmail, TxtPhone>>, Ignore(<<TxtEmail>>, <<>>), <<>>>>}

TokensOf(texts) == [j \in 1..Len(texts) |-> Token(texts[j], j - 1)]

TextOf(c) == BuildTextAndMapping(frames[c].tokens)

\* lines 320-331
CallStart(c) ==
    /\ frames[c].pc = "detect_pii"
    /\ frames' = [frames EXCEPT ![c].pc = Entry(frames[c].tokens),
                                ![c].all_items = <<>>]

\* line 337
CallEmails(c) ==
    /\ frames[c].pc = "emails"
    /\ frames' = [frames EXCEPT
          ![c].all_items = @ \o DetectEmails(TextOf(c).full_text,
                                   TextOf(c).char_to_token, frames[c].tokens,
                                   frames[c].ignore_list.emails,
                                   frames[c].ignore_list.domains),
          ![c].pc = "ips"]

\* line 340
CallIps(c) ==
    /\ frames[c].pc = "ips"
    /\ frames' = [frames EXCEPT
          ![c].all_items = @ \o DetectIps(TextOf(c).full_text,
                                   TextOf(c).char_to_token, frames[c].tokens),
          ![c].pc = "urls"]

\* line 343
CallUrls(c) ==
    /\ frames[c].pc = "urls"
    /\ frames' = [frames EXCEPT
          ![c].all_items = @ \o DetectUrls(TextOf(c).full_text,
                                   TextOf(c).char_to_token, frames[c].tokens),
          ![c].pc = "domains"]

\* line 346, and lines 271-272 of _detect_phones
CallDomains(c) ==
    /\ frames[c].pc = "domains"
    /\ frames' = [frames EXCEPT
          ![c].all_items = @ \o DetectDomains(TextOf(c).full_text,
                                   TextOf(c).char_to_token, frames[c].tokens,
                                   frames[c].all_items,
                                   frames[c].ignore_list.domains),
          ![c].pc = "phones",
          ![c].phone_pass = 1,
          ![SeenOwner(c)].seen = {}]

\* one iteration of the loop over the region hints (lines 276-298)
CallPhonePass(c) ==
    /\ frames[c].pc = "phones"
    /\ LET r == PhoneScan(Scan(matcher, TextOf(c).full_text, frames[c].phone_pass).ms,
                          TextOf(c).full_text, TextOf(c).char_to_token,
                          frames[c].tokens, frames[SeenOwner(c)].seen, <<>>)
       IN  frames' = [frames EXCEPT
              ![c].all_items = @ \o r.items,
              ![c].phone_pass = @ + 1,
              ![c].pc = IF frames[c].phone_pass = Len(PhoneRegions)
                        THEN "custom" ELSE "phones",
              ![SeenOwner(c)].seen = r.seen]

\* lines 351-373
CallCustom(c) ==
    /\ frames[c].pc = "custom"
    /\ frames' = [frames EXCEPT
          ![c].all_items = @ \o CustomItems(frames[c].custom_rules,
                                   TextOf(c).full_text, TextOf(c).char_to_token,
                                   frames[c].tokens),
          ![c].pc = IF CustomRaises(frames[c].custom_rules)
                    THEN "raised" ELSE "returned"]

InitTwoCalls ==
    /\ pc = "two_calls"
    /\ frames \in {[c \in Calls |-> Frame(TokensOf(a[c][1]), a[c][2], a[c][3])] :
                      a \in [Calls -> CallArgs]}
    /\ matcher \in Matchers
    /\ tokens = <<>> /\ ignore_list = <<>> /\ custom_rules = <<>>
    /\ all_items = <<>> /\ seen = {} /\ phone_pass = 0 /\ phone_reported = {}
    /\ phone_raised = FALSE /\ assembled = <<>>
    /\ detections = <<>> /\ template = <<>> /\ regions = <<>>
    /\ item = <<>> /\ region = <<>>
    /\ image = <<>> /\ redact_regions = <<>> /\ style = "" /\ result = <<>>
    /\ match_span = <<>> /\ match_boxes = <<>>
    /\ batch_images = <<>> /\ image_idx = 0 /\ should_stop = FALSE /\ emitted = <<>>
    /\ blocked_dirs = {} /\ success_count = 0 /\ error_count = 0

NextTwoCalls ==
    /\ pc = "two_calls"
    /\ \E c \in Calls :
          \/ CallStart(c) \/ CallEmails(c) \/ CallIps(c) \/ CallUrls(c)
          \/ CallDomains(c) \/ CallPhonePass(c) \/ CallCustom(c)
    /\ UNCHANGED <<oneCallVars, matcher, boxVars, batchVars>>

SpecTwoCalls == InitTwoCalls /\ [][NextTwoCalls]_vars

-----------------------------------------------------------------------------
(* BatchProcessor.run_batch and BatchProcessor.stop (batch_processor.py)   *)

\* the variables run_batch leaves alone
otherVars == <<tokens, ignore_list, custom_rules, all_items, seen, phone_pass,
               phone_reported, phone_raised, assembled, detections, template,
               regions, item, region, image, redact_regions, style, result,
               frames, matcher, match_span, match_boxes>>

\* the largest number of images _find_images returns
MaxImages == 3

\* image files of an input directory in the order of sorted(images): the
\* directory of the file below the input directory, and what processing
\* the file does: "Success", "ImageLoadError" (load_image fails) or
\* "Exception" (OCR, detection, redaction or save fails)
ImageFile(name, dir, does) == [name |-> name, dir |-> dir, does |-> does]

ImagePool ==
    << ImageFile("a.png", ".", "Success"),
       ImageFile("b.png", ".", "ImageLoadError"),
       ImageFile("sub/c.png", "sub", "Success"),
       ImageFile("sub/d.png", "sub", "Exception"),
       ImageFile("sub/e.png", "sub", "Success") >>

\* the members of the pool at the positions in S, in the order of the pool
RECURSIVE Picked(_, _)
Picked(S, k) ==
    IF k > Len(ImagePool) THEN <<>>
    ELSE (IF k \in S THEN <<ImagePool[k]>> ELSE <<>>) \o Picked(S, k + 1)

\* lines 42-66: _find_images returns a sorted list of distinct paths
FoundImages ==
    {Picked(S, 1) : S \in {T \in SUBSET (1..Len(ImagePool)) : Cardinality(T) <= MaxImages}}

\* "." is output_dir itself, "sub" a directory below it: mkdir raises for a
\* blocked directory (a file of that name exists, or no permission)
BlockedDirs == {{}, {"sub"}, {"."}}

\* the three signals of lines 22-24
Progress(current, total) ==
    [sig |-> "progressUpdated", name |-> "", status |-> "", current |-> current, total |-> total]

FileProcessed(name, status) ==
    [sig |-> "fileProcessed", name |-> name, status |-> status, current |-> 0, total |-> 0]

\* the summary is one of "No images found", "Batch stopped by user",
\* "Batch complete", "Batch failed"; current and total carry the two counts
\* that the summary prints
BatchFinished(summary, ok, errors) ==
    [sig |-> "batchFinished", name |-> "", status |-> summary, current |-> ok, total |-> errors]

\* lines 150-157: both handlers emit an "Error: ..." status
StatusOf(does) == IF does = "Success" THEN "Success" ELSE "Error"

\* lines 38-40: stop(), called from another thread at any moment
Stop ==
    /\ pc \in {"run_batch", "find_images", "loop", "progress", "mkdir", "process",
              "finished"}
    /\ should_stop' = TRUE
    /\ UNCHANGED <<pc, batch_images, image_idx, emitted, blocked_dirs,
                   success_count, error_count>>
    /\ UNCHANGED otherVars

\* line 79: the flag is reset at the start of the call
RunBatchStart ==
    /\ pc = "run_batch"
    /\ should_stop' = FALSE
    /\ pc' = "find_images"
    /\ UNCHANGED <<batch_images, image_idx, emitted, blocked_dirs,
                   success_count, error_count>>
    /\ UNCHANGED otherVars

\* lines 83-96: _find_images, the empty directory, creation of the output
\* directory (its exception goes to line 163), the counters
FindImages ==
    /\ pc = "find_images"
    /\ IF Len(batch_images) = 0
       THEN /\ emitted' = Append(emitted, BatchFinished("No images found", 0, 0))
            /\ pc' = "finished"
       ELSE IF "." \in blocked_dirs
       THEN /\ emitted' = Append(emitted, BatchFinished("Batch failed", 0, 0))
            /\ pc' = "finished"
       ELSE /\ emitted' = emitted
            /\ pc' = "loop"
    /\ image_idx' = 0 /\ success_count' = 0 /\ error_count' = 0
    /\ UNCHANGED <<batch_images, should_stop, blocked_dirs>>
    /\ UNCHANGED otherVars

\* lines 99-102 and 159-161: the head of the loop: after the last image the
\* completion summary; otherwise the test of should_stop
LoopTest ==
    /\ pc = "loop"
    /\ IF image_idx >= Len(batch_images)
       THEN /\ emitted' = Append(emitted,
                             BatchFinished("Batch complete", success_count, error_count))
            /\ pc' = "finished"
       ELSE IF should_stop
       THEN /\ emitted' = Append(emitted,
                             BatchFinished("Batch stopped by user", success_count, error_count))
            /\ pc' = "finished"
       ELSE /\ emitted' = emitted
            /\ pc' = "progress"
    /\ UNCHANGED <<batch_images, image_idx, should_stop, blocked_dirs,
                   success_count, error_count>>
    /\ UNCHANGED otherVars

\* line 105: progressUpdated for the image whose test has passed
EmitProgress ==
    /\ pc = "progress"
    /\ emitted' = Append(emitted, Progress(image_idx + 1, Len(batch_images)))
    /\ pc' = "mkdir"
    /\ UNCHANGED <<batch_images, image_idx, should_stop, blocked_dirs,
                   success_count, error_count>>
    /\ UNCHANGED otherVars

\* lines 108-116: relative_path, output_file and the mkdir of its parent,
\* outside the inner try: an exception of mkdir goes to line 163
MakeParent ==
    /\ pc = "mkdir"
    /\ IF batch_images[image_idx + 1].dir \in blocked_dirs
       THEN /\ emitted' = Append(emitted, BatchFinished("Batch failed", 0, 0))
            /\ pc' = "finished"
       ELSE /\ emitted' = emitted
            /\ pc' = "process"
    /\ UNCHANGED <<batch_images, image_idx, should_stop, blocked_dirs,
                   success_count, error_count>>
    /\ UNCHANGED otherVars

\* lines 119-157: the inner try with its two handlers, and the next idx
ProcessImage ==
    /\ pc = "process"
    /\ LET file == batch_images[image_idx + 1]
       IN  /\ emitted' = Append(emitted, FileProcessed(file.name, StatusOf(file.does)))
           /\ success_count' = success_count + (IF file.does = "Success" THEN 1 ELSE 0)
           /\ error_count' = error_count + (IF file.does = "Success" THEN 0 ELSE 1)
    /\ image_idx' = image_idx + 1
    /\ pc' = "loop"
    /\ UNCHANGED <<batch_images, should_stop, blocked_dirs>>
    /\ UNCHANGED otherVars

\* a BatchProcessor after __init__ (line 36), and the directories of a call
InitBatch ==
    /\ pc = "run_batch"
    /\ tokens = <<>> /\ ignore_list = <<>> /\ custom_rules = <<>>
    /\ all_items = <<>> /\ seen = {} /\ phone_pass = 0 /\ phone_reported = {}
    /\ phone_raised = FALSE /\ assembled = <<>>
    /\ detections = <<>> /\ template = <<>> /\ regions = <<>>
    /\ item = <<>> /\ region = <<>>
    /\ image = <<>> /\ redact_regions = <<>> /\ style = "" /\ result = <<>>
    /\ frames = <<>> /\ matcher = 0 /\ match_span = <<>> /\ match_boxes = <<>>
    /\ batch_images \in FoundImages
    /\ blocked_dirs \in BlockedDirs
    /\ image_idx = 0 /\ should_stop = FALSE /\ emitted = <<>>
    /\ success_count = 0 /\ error_count = 0

NextBatch == \/ Stop \/ RunBatchStart \/ FindImages \/ LoopTest \/ EmitProgress
             \/ MakeParent \/ ProcessImage

SpecBatch == InitBatch /\ [][NextBatch]_vars

-----------------------------------------------------------------------------
(* Any one call of the entry points                                        *)

Init == \/ InitDetect \/ InitMerge \/ InitRegions \/ InitRedact \/ InitAssemble
        \/ InitBoxes \/ InitTwoCalls \/ InitBatch

Next == \/ NextDetect \/ NextMerge \/ NextRegions \/ NextRedact \/ NextAssemble
        \/ NextBoxes \/ NextTwoCalls \/ NextBatch

Spec == Init /\ [][Next]_vars

-----------------------------------------------------------------------------
(* Properties of detect_pii                                                *)

ItemsOfType(t) == SelectSeq(all_items, LAMBDA it : it.pii_type = t)

\* the number of items of all_items equal to it
CountItems(it) == Cardinality({k \in 1..Len(all_items) : all_items[k] = it})

MatchText(m) == Slice(Assembled.full_text, m.start, m.end)
MatchBoxes(m) == TokensForMatch(m.start, m.end, Assembled.char_to_token, tokens)
MatchOffsets(m) == m.start..(m.end - 1)

\* the matches of pattern p for which the call emitted an item of type t
EmittedMatches(t, p) ==
    {m \in Range(FindIter(p, Assembled.full_text)) :
        CountItems(Item(t, MatchText(m), MatchBoxes(m), Contains(MatchText(m), "?")
                                                         /\ t = "URL")) > 0}

\* the offsets inside an EMAIL, IP or URL match emitted by the call
EmittedOffsets ==
    UNION {MatchOffsets(m) : m \in EmittedMatches("EMAIL", EMAIL_PATTERN)
                                   \cup EmittedMatches("IP", IP_PATTERN)
                                   \cup EmittedMatches("URL", URL_PATTERN)}

\* the domain-pattern matches with this text and these boxes that share no
\* offset with an emitted EMAIL, IP or URL match
CleanDomainMatches(text, boxes) ==
    {m \in Range(FindIter(DOMAIN_PATTERN, Assembled.full_text)) :
        /\ MatchText(m) = text
        /\ MatchBoxes(m) = boxes
        /\ MatchOffsets(m) \cap EmittedOffsets = {}}

AfterDomains == pc \in {"phones", "custom", "returned"} /\ tokens # <<>>

\* C3: no DOMAIN item comes from a domain-pattern match that shares a
\* character offset with an EMAIL, URL or IP match emitted in the same call:
\* the DOMAIN items with a given text and box list are no more than the
\* domain matches with that text and box list lying outside all those spans.
C3_NoDomainInsideOtherMatch ==
    AfterDomains =>
        \A k \in 1..Len(all_items) :
            all_items[k].pii_type = "DOMAIN" =>
                CountItems(all_items[k])
                    <= Cardinality(CleanDomainMatches(all_items[k].text,
                                                      all_items[k].boxes))

\* s.split(sep)
RECURSIVE SplitOn(_, _)
SplitOn(s, sep) ==
    IF ~Contains(s, sep) THEN <<s>>
    ELSE LET k == CHOOSE j \in 1..Len(s) : s[j] = sep /\ \A i \in 1..(j - 1) : s[i] # sep
         IN  <<SubSeq(s, 1, k - 1)>> \o SplitOn(SubSeq(s, k + 1, Len(s)), sep)

RECURSIVE DecimalValue(_)
DecimalValue(g) ==
    IF g = <<>> THEN 0
    ELSE 10 * DecimalValue(SubSeq(g, 1, Len(g) - 1)) + DigitVal(g[Len(g)])

IsOctetText(g) == /\ Len(g) >= 1
                  /\ \A k \in 1..Len(g) : g[k] \in Digit
                  /\ DecimalValue(g) \in 0..255

IsDottedQuad(t) == LET gs == SplitOn(t, ".")
                   IN  Len(gs) = 4 /\ \A k \in 1..4 : IsOctetText(gs[k])

TokenBox(j) == <<tokens[j].x, tokens[j].y, tokens[j].w, tokens[j].h>>

\* the IP items located on token j alone
IpItemsOn(j) == {k \in 1..Len(all_items) :
                    all_items[k].pii_type = "IP" /\ all_items[k].boxes = <<TokenBox(j)>>}

AfterIps == pc \in {"urls", "domains", "phones", "custom", "returned"} /\ tokens # <<>>

\* C4: the text of every IP item is four dot-separated decimal groups, each
\* of value 0..255; a token reading 192.168.1.256 yields no IP item and a
\* token reading 192.168.1.1 yields exactly one.
C4_IpItemsAreDottedQuads ==
    /\ \A k \in 1..Len(all_items) :
          all_items[k].pii_type = "IP" => IsDottedQuad(all_items[k].text)
    /\ AfterIps =>
          \A j \in 1..Len(tokens) :
              /\ tokens[j].text = TxtBadIp => IpItemsOn(j) = {}
              /\ tokens[j].text = TxtIp => Cardinality(IpItemsOn(j)) = 1

C4_Witness ==
    /\ pc = "returned"
    /\ \E i, j \in 1..Len(tokens) : tokens[i].text = TxtIp /\ tokens[j].text = TxtBadIp
    /\ Len(ItemsOfType("IP")) = 1

\* the reported phone spans that map to at least one token
ReportedWithBoxes == {m \in phone_reported : MatchBoxes(m) # <<>>}

\* the reported phone spans that give the item it
ReportedAs(it) == {m \in ReportedWithBoxes :
                      it = Item("PHONE", MatchText(m), MatchBoxes(m), FALSE)}

InPhones == pc \in {"phones", "custom", "returned"} /\ tokens # <<>>

\* every distinct reported span that maps to a token yields exactly one
\* PHONE item, whatever the number of region hints that reported it
OneItemPerReportedSpan ==
    /\ Len(ItemsOfType("PHONE")) = Cardinality(ReportedWithBoxes)
    /\ \A m \in ReportedWithBoxes :
          CountItems(Item("PHONE", MatchText(m), MatchBoxes(m), FALSE))
              = Cardinality(ReportedAs(Item("PHONE", MatchText(m), MatchBoxes(m), FALSE)))
    /\ \A k \in 1..Len(all_items) :
          all_items[k].pii_type = "PHONE" => ReportedAs(all_items[k]) # {}

\* C5 as stated: one PHONE item per distinct reported span, and the same
\* number text at two different offsets gives two items with different box
\* lists.
C5_Original ==
    InPhones =>
        /\ OneItemPerReportedSpan
        /\ \A a, b \in ReportedWithBoxes :
              (a # b /\ MatchText(a) = MatchText(b)) => MatchBoxes(a) # MatchBoxes(b)

\* C5 (amended): one PHONE item per distinct reported span that maps to a
\* token, so the same number text at two different offsets gives two PHONE
\* items; their box lists differ when the two spans lie on different tokens
\* (tokens with distinct rectangles) and are equal when both spans lie in
\* the same tokens.
C5_OneItemPerSpan ==
    InPhones =>
        /\ OneItemPerReportedSpan
        /\ \A a, b \in ReportedWithBoxes :
              (a # b /\ MatchText(a) = MatchText(b)) =>
                  /\ CountItems(Item("PHONE", MatchText(a), MatchBoxes(a), FALSE))
                       + (IF MatchBoxes(a) = MatchBoxes(b) THEN 0
                          ELSE CountItems(Item("PHONE", MatchText(b), MatchBoxes(b),
                                               FALSE))) >= 2
                  /\ (MatchBoxes(a) # MatchBoxes(b))
                       <=> (TokenIndices(a.start, a.end, Assembled.char_to_token)
                            # TokenIndices(b.start, b.end, Assembled.char_to_token))

\* two tokens with the same number, both reported, by more than one hint
C5_Witness ==
    /\ pc = "returned"
    /\ Len(tokens) = 2 /\ tokens[1].text = TxtPhone /\ tokens[2].text = TxtPhone
    /\ Cardinality(phone_reported) = 2
    /\ Len(ItemsOfType("PHONE")) = 2
    /\ ItemsOfType("PHONE")[1].text = ItemsOfType("PHONE")[2].text
    /\ ItemsOfType("PHONE")[1].boxes # ItemsOfType("PHONE")[2].boxes

\* C10: every item of detect_pii, of every type, has at least one box.
C10_EveryItemHasABox ==
    \A k \in 1..Len(all_items) : all_items[k].boxes # <<>>

\* the matches of the custom rules that compile
RuleMatches ==
    UNION {IF custom_rules[r].regex.op \in {"invalid", "overflow"} THEN {}
           ELSE Range(FindIter(custom_rules[r].regex, Assembled.full_text)) :
           r \in 1..Len(custom_rules)}

\* a call that returned items although a custom rule matched a separator
\* space and matched the empty string
C10_Witness ==
    /\ pc = "returned"
    /\ \E m \in RuleMatches : m.end = m.start + 1 /\ MatchBoxes(m) = <<>>
    /\ \E m \in RuleMatches : m.end = m.start
    /\ ItemsOfType("CUSTOM") # <<>>
    /\ ItemsOfType("PHONE") # <<>>

\* what follows the first "@" of t
AfterAt(t) ==
    LET k == CHOOSE j \in 1..Len(t) : t[j] = "@" /\ \A i \in 1..(j - 1) : t[i] # "@"
    IN  SubSeq(t, k + 1, Len(t))

Ignored(t) == \/ t \in Range(ignore_list.emails)
              \/ AfterAt(t) \in Range(ignore_list.domains)

\* C11: the ignore lists suppress by exact comparison: no EMAIL item has a
\* text in ignore-emails or a domain (what follows "@") in ignore-domains, no
\* DOMAIN item has a text in ignore-domains, and every email match that is in
\* neither list and maps to a token is emitted as an EMAIL item.
C11_IgnoreListsSuppress ==
    /\ \A k \in 1..Len(all_items) :
          /\ all_items[k].pii_type = "EMAIL" => ~Ignored(all_items[k].text)
          /\ all_items[k].pii_type = "DOMAIN"
                => all_items[k].text \notin Range(ignore_list.domains)
    /\ pc = "returned" =>
          \A m \in Range(FindIter(EMAIL_PATTERN, Assembled.full_text)) :
              (~Ignored(MatchText(m)) /\ MatchBoxes(m) # <<>>)
                  => CountItems(Item("EMAIL", MatchText(m), MatchBoxes(m), FALSE)) >= 1

\* an ignored domain suppressed an email and a domain
C11_Witness ==
    /\ pc = "returned"
    /\ ignore_list.domains = <<TxtDomain>>
    /\ \E i, j \in 1..Len(tokens) :
          tokens[i].text = TxtEmail /\ tokens[j].text = TxtDomain
    /\ ItemsOfType("EMAIL") = <<>> /\ ItemsOfType("DOMAIN") = <<>>

\* the stated email grammar: a local part of one or more characters of
\* [A-Za-z0-9._%+-], "@", one or more dot-terminated labels (characters of
\* [A-Za-z0-9.-] up to the last dot), a final label of two or more letters
GrammarLocalChars == Letter \cup Digit \cup {".", "_", "%", "+", "-"}
GrammarLabelChars == Letter \cup Digit \cup {".", "-"}

IsEmailGrammar(t) ==
    \E k, d \in 1..Len(t) :
        /\ 1 < k /\ k + 1 < d /\ d + 2 <= Len(t)
        /\ t[k] = "@" /\ t[d] = "."
        /\ \A i \in 1..(k - 1) : t[i] \in GrammarLocalChars
        /\ \A i \in (k + 1)..(d - 1) : t[i] \in GrammarLabelChars
        /\ \A i \in (d + 1)..Len(t) : t[i] \in Letter

\* C12: the text of every EMAIL item follows the stated email grammar; in
\* particular its final label holds two or more ASCII letters and no other
\* character.
C12_EmailTextFollowsGrammar ==
    \A k \in 1..Len(all_items) :
        all_items[k].pii_type = "EMAIL" => IsEmailGrammar(all_items[k].text)

\* C13: a URL item has has_query_params exactly when its text contains "?";
\* an item of any other type has has_query_params = false.
C13_QueryFlagIffQuestionMark ==
    \A k \in 1..Len(all_items) :
        IF all_items[k].pii_type = "URL"
        THEN all_items[k].has_query_params
                <=> (\E i \in 1..Len(all_items[k].text) : all_items[k].text[i] = "?")
        ELSE all_items[k].has_query_params = FALSE

\* a call that returned a URL with and a URL without query parameters
C13_Witness ==
    /\ pc = "returned"
    /\ \E i, j \in 1..Len(all_items) :
          /\ all_items[i].pii_type = "URL" /\ all_items[i].has_query_params
          /\ all_items[j].pii_type = "URL" /\ ~all_items[j].has_query_params

\* re cannot compile the regex of the rule
HasInvalidRegex(rule) == rule.regex.op \in {"invalid", "overflow"}

NotCustom == SelectSeq(all_items, LAMBDA it : it.pii_type # "CUSTOM")

AfterCustom == pc \in {"returned", "raised"} /\ tokens # <<>>

\* C14: a custom rule with an invalid regex is skipped without aborting the
\* scan: detect_pii returns, and its items are the items of the built-in
\* detectors followed by the items of the rules without the invalid one.
C14_InvalidRuleIsSkipped ==
    AfterCustom =>
        \A i \in 1..Len(custom_rules) :
            HasInvalidRegex(custom_rules[i]) =>
                /\ pc = "returned"
                /\ all_items = NotCustom
                                \o CustomItems(RemoveAt(custom_rules, i),
                                               Assembled.full_text,
                                               Assembled.char_to_token, tokens)

\* C15: a scan of the phone matcher that ends with an exception contributes
\* no PHONE item at all, and the loop goes on to the next region hint (to
\* the custom rules after the last one).
C15_RaisingPassAddsNothing ==
    [][(pc = "phones" /\ phone_raised') =>
          /\ all_items' = all_items
          /\ phone_pass' = phone_pass + 1
          /\ pc' = IF phone_pass = Len(PhoneRegions) THEN "custom" ELSE "phones"]_vars

\* the matches of rule r in the assembled text a, in text order, that map to
\* at least one token; none for a rule without name or regex or with a regex
\* re cannot compile
KeptRuleMatches(r, a) ==
    IF \/ custom_rules[r].name = <<>>
       \/ IsEmptyRegex(custom_rules[r].regex)
       \/ HasInvalidRegex(custom_rules[r])
    THEN <<>>
    ELSE SelectSeq(FindIter(custom_rules[r].regex, a.full_text),
                   LAMBDA m : TokenIndices(m.start, m.end, a.char_to_token) # {})

\* one CUSTOM item named after the rule per kept match, rule after rule;
\* kept[r] are the kept matches of rule r
RECURSIVE ExpectedCustomFrom(_, _, _)
ExpectedCustomFrom(kept, a, r) ==
    IF r > Len(custom_rules) THEN <<>>
    ELSE [j \in 1..Len(kept[r]) |->
             [pii_type |-> "CUSTOM", text |-> custom_rules[r].name,
              boxes |-> TokensForMatch(kept[r][j].start, kept[r][j].end,
                                       a.char_to_token, tokens),
              has_query_params |-> FALSE]]
         \o ExpectedCustomFrom(kept, a, r + 1)

\* C16: every item of a custom rule has type CUSTOM and the name of the rule
\* as its text, never the matched substring; there is one item per match of
\* the rule that maps to at least one token, in the order of the rule list.
C16_CustomItemsCarryRuleName ==
    (pc = "returned" /\ tokens # <<>>) =>
        LET a       == Assembled
            kept    == [r \in 1..Len(custom_rules) |-> KeptRuleMatches(r, a)]
            matched == [r \in 1..Len(custom_rules) |->
                           {Slice(a.full_text, m.start, m.end) : m \in Range(kept[r])}]
        IN  /\ ItemsOfType("CUSTOM") = ExpectedCustomFrom(kept, a, 1)
            /\ \A k \in 1..Len(all_items) :
                  all_items[k].pii_type = "CUSTOM" =>
                      \E r \in 1..Len(custom_rules) :
                          /\ all_items[k].text = custom_rules[r].name
                          /\ all_items[k].text \notin matched[r]

\* two rules each gave an item, the item of the later rule last although
\* its match comes first in the text
C16_Witness ==
    /\ pc = "returned"
    /\ Len(tokens) = 2 /\ tokens[1].text = TxtEmail /\ tokens[2].text = TxtIp
    /\ Len(ItemsOfType("CUSTOM")) >= 2
    /\ ItemsOfType("CUSTOM")[1].text = NameNumber
    /\ ItemsOfType("CUSTOM")[Len(ItemsOfType("CUSTOM"))].text = NameAt

\* the offsets inside a match of the EMAIL, the IP or the URL pattern in text
OtherMatchOffsets(text) ==
    SpanOffsets(FindIter(EMAIL_PATTERN, text))
        \cup SpanOffsets(FindIter(IP_PATTERN, text))
        \cup SpanOffsets(FindIter(URL_PATTERN, text))

\* C24: a match of the domain pattern that shares no offset with a match of
\* the EMAIL, the URL or the IP pattern, whose text is not in ignore-domains
\* and which maps to a token, is emitted as a DOMAIN item with that text and
\* the boxes of the match.
C24_StandaloneDomainIsEmitted ==
    (pc = "returned" /\ tokens # <<>>) =>
        LET a     == Assembled
            other == OtherMatchOffsets(a.full_text)
        IN  \A m \in Range(FindIter(DOMAIN_PATTERN, a.full_text)) :
                ( /\ (m.start..(m.end - 1)) \cap other = {}
                  /\ ~Contains(ignore_list.domains, Slice(a.full_text, m.start, m.end))
                  /\ TokenIndices(m.start, m.end, a.char_to_token) # {} )
                    => \E k \in 1..Len(all_items) :
                          /\ all_items[k].pii_type = "DOMAIN"
                          /\ all_items[k].text = Slice(a.full_text, m.start, m.end)
                          /\ all_items[k].boxes =
                                 TokensForMatch(m.start, m.end, a.char_to_token, tokens)

\* C27: the domain of an address that ignore-emails suppresses, when it is
\* not in ignore-domains, is emitted as a DOMAIN item with the boxes of that
\* part of the match: the ignored address is not among the items that
\* exclude domain matches.
C27_IgnoredEmailLeavesItsDomain ==
    (pc = "returned" /\ tokens # <<>>) =>
        LET a == Assembled
        IN  \A m \in Range(FindIter(EMAIL_PATTERN, a.full_text)) :
                LET email  == Slice(a.full_text, m.start, m.end)
                    domain == AfterAt(email)
                IN  ( /\ Contains(ignore_list.emails, email)
                      /\ ~Contains(ignore_list.domains, domain) )
                        => \E k \in 1..Len(all_items) :
                              /\ all_items[k].pii_type = "DOMAIN"
                              /\ all_items[k].text = domain
                              /\ all_items[k].boxes =
                                     TokensForMatch(m.end - Len(domain), m.end,
                                                    a.char_to_token, tokens)

\* no token text holds a whitespace character
NoSpaceInTokens ==
    \A j \in 1..Len(tokens) : \A k \in 1..Len(tokens[j].text) :
        tokens[j].text[k] \notin WhiteSpace

\* C28: when no token text holds a whitespace character every EMAIL, IP, URL
\* and DOMAIN item has exactly one box and its text holds no whitespace: a
\* match of these patterns never runs over the separator between two
\* tokens, so an address split over tokens gives no EMAIL item.
C28_PatternItemsHaveOneBox ==
    (pc \in {"ips", "urls", "domains", "phones", "custom", "returned", "raised"}
        /\ NoSpaceInTokens) =>
        \A k \in 1..Len(all_items) :
            all_items[k].pii_type \in {"EMAIL", "IP", "URL", "DOMAIN"} =>
                /\ Len(all_items[k].boxes) = 1
                /\ \A i \in 1..Len(all_items[k].text) :
                      all_items[k].text[i] \notin WhiteSpace
                /\ \E j \in 1..Len(tokens) :
                      /\ all_items[k].boxes[1] = <<tokens[j].x, tokens[j].y,
                                                   tokens[j].w, tokens[j].h>>
                      /\ Len(all_items[k].text) <= Len(tokens[j].text)

\* the address split before its domain gave the domain with the box of the
\* second token and no EMAIL item
C28_Witness ==
    /\ pc = "returned"
    /\ Len(tokens) = 2
    /\ tokens[1].text = TxtLocalAt /\ tokens[2].text = TxtDomain
    /\ \A k \in 1..Len(all_items) : all_items[k].pii_type # "EMAIL"
    /\ \E k \in 1..Len(all_items) :
          /\ all_items[k].pii_type = "DOMAIN"
          /\ all_items[k].boxes = <<<<tokens[2].x, tokens[2].y, tokens[2].w, tokens[2].h>>>>

-----------------------------------------------------------------------------
(* Properties of _build_text_and_mapping                                   *)

\* the sum of the lengths of the texts of the first n tokens
RECURSIVE TextLengths(_)
TextLengths(n) == IF n = 0 THEN 0 ELSE TextLengths(n - 1) + Len(tokens[n].text)

WasAssembled == pc = "assembled"

\* C17: for n > 0 tokens the assembled text has the length of the token
\* texts together plus n - 1, and the offset index has the length of the
\* text; for no token both are empty.
C17_AssembledLengths ==
    WasAssembled =>
        /\ Len(assembled.char_to_token) = Len(assembled.full_text)
        /\ IF tokens = <<>>
           THEN assembled.full_text = <<>> /\ assembled.char_to_token = <<>>
           ELSE Len(assembled.full_text) = TextLengths(Len(tokens)) + (Len(tokens) - 1)

\* three tokens, the first of them without text
C17_Witness ==
    /\ WasAssembled
    /\ Len(tokens) = 3 /\ tokens[1].text = <<>> /\ tokens[3].text # <<>>
    /\ Len(assembled.full_text) = TextLengths(3) + 2

\* the 0-based offsets of the assembled text that the index gives to v
OffsetsOf(v) == {i \in 0..(Len(assembled.char_to_token) - 1) :
                    assembled.char_to_token[i + 1] = v}

\* the offset of the separator inserted before token j (0-based, j > 0)
SeparatorOffset(j) == TextLengths(j) + (j - 1)

\* C18: the offset index is none exactly at the one separator space before
\* each token after the first; the offsets holding index j are one run of
\* len(tokens[j].text) consecutive offsets whose characters are the text of
\* token j, and the runs come in the order of the tokens.
C18_OffsetIndexOwnsCharacters ==
    WasAssembled =>
        /\ OffsetsOf(NoToken) = {SeparatorOffset(j) : j \in 1..(Len(tokens) - 1)}
        /\ \A i \in OffsetsOf(NoToken) : assembled.full_text[i + 1] = " "
        /\ \A i \in 0..(Len(assembled.char_to_token) - 1) :
              assembled.char_to_token[i + 1] \in {NoToken} \cup 0..(Len(tokens) - 1)
        /\ \A j \in 0..(Len(tokens) - 1) :
              LET t     == tokens[j + 1].text
                  first == TextLengths(j) + j
              IN  /\ OffsetsOf(j) = first..(first + Len(t) - 1)
                  /\ \A k \in 1..Len(t) : assembled.full_text[first + k] = t[k]
        /\ \A a, b \in 0..(Len(assembled.char_to_token) - 1) :
              (/\ a < b
               /\ assembled.char_to_token[a + 1] # NoToken
               /\ assembled.char_to_token[b + 1] # NoToken)
                  => assembled.char_to_token[a + 1] <= assembled.char_to_token[b + 1]

\* a token without text between two others, one of them holding a space
C18_Witness ==
    /\ WasAssembled
    /\ Len(tokens) = 3 /\ tokens[2].text = <<>>
    /\ tokens[1].text = <<"d", " ", "e">>
    /\ Cardinality(OffsetsOf(NoToken)) = 2
    /\ OffsetsOf(0) = 0..2

\* the token indices the index holds at the offsets of the span that lie
\* inside the index
Referenced ==
    {v \in 0..(Len(tokens) - 1) :
        \E i \in match_span[1]..(match_span[2] - 1) :
            i < Len(assembled.char_to_token) /\ assembled.char_to_token[i + 1] = v}

Resolved == pc = "resolved"

\* C26: _tokens_for_match returns one rectangle per token index the index
\* holds in the span, entries without a token and offsets past the end of
\* the index left out, in ascending order of the token index (token j of the
\* model has x = 100 j); every rectangle is that of a token, and every index
\* met is one of the token list.
C26_OneBoxPerReferencedToken ==
    Resolved =>
        /\ Len(match_boxes) = Cardinality(Referenced)
        /\ \A v \in Referenced :
              \E k \in 1..Len(match_boxes) :
                  match_boxes[k] = <<tokens[v + 1].x, tokens[v + 1].y,
                                     tokens[v + 1].w, tokens[v + 1].h>>
        /\ \A k, l \in 1..Len(match_boxes) : k < l => match_boxes[k][1] < match_boxes[l][1]
        /\ \A i \in match_span[1]..(match_span[2] - 1) :
              i < Len(assembled.char_to_token)
                  => assembled.char_to_token[i + 1] \in {NoToken} \cup 0..(Len(tokens) - 1)

\* a span that starts in the first of three tokens, runs over two separators
\* and ends past the end of the index gave three rectangles
C26_Witness ==
    /\ Resolved
    /\ Len(tokens) = 3
    /\ match_span[2] > Len(assembled.char_to_token)
    /\ \E i \in match_span[1]..(Len(assembled.char_to_token) - 1) :
          assembled.char_to_token[i + 1] = NoToken
    /\ Len(match_boxes) = 3

-----------------------------------------------------------------------------
(* Properties of core/regions.py                                           *)

PolicyApplied == pc = "policy_applied"

\* C6: after apply_template_policy every URL region is selected exactly when
\* its detection has query parameters if the template flags query
\* parameters, and is selected if the template does not.
C6_UrlPolicy ==
    PolicyApplied =>
        /\ Len(regions) = Len(detections)
        /\ \A i \in 1..Len(regions) :
              regions[i].pii_type = "URL" =>
                  IF template.url_flag_query_params
                  THEN regions[i].selected = detections[i].has_query_params
                  ELSE regions[i].selected = TRUE

\* a flagging template met a URL with and a URL without query parameters
C6_Witness ==
    /\ PolicyApplied
    /\ template.url_flag_query_params
    /\ \E i, j \in 1..Len(regions) :
          /\ regions[i].pii_type = "URL" /\ regions[i].selected
          /\ regions[j].pii_type = "URL" /\ ~regions[j].selected

\* C7: apply_template_policy keeps every region, in order: region i has the
\* type, text and rectangle merge_boxes gives detection i, every region that
\* is not a URL is selected, and the detections are left as they were.
C7_PolicyOnlyTogglesSelection ==
    [][pc' = "policy_applied" =>
          /\ detections' = detections
          /\ Len(regions') = Len(detections)
          /\ \A i \in 1..Len(detections) :
                /\ [regions'[i] EXCEPT !.selected = TRUE] = MergeBoxes(detections[i])
                /\ regions'[i].pii_type # "URL" => regions'[i].selected]_vars

\* the policy deselected a URL among regions of other types
C7_Witness ==
    /\ PolicyApplied
    /\ Len(regions) = MaxItems
    /\ \E i, j \in 1..Len(regions) :
          /\ ~regions[i].selected
          /\ regions[j].pii_type # "URL" /\ regions[j].selected

EnclosesBox(r, box) ==
    /\ r.x <= box[1] /\ box[1] + box[3] <= r.x + r.w
    /\ r.y <= box[2] /\ box[2] + box[4] <= r.y + r.h

\* C8: for an item with at least one box merge_boxes returns the enclosing
\* rectangle: x and y are the least x and y of the boxes, x + w and y + h the
\* greatest right and bottom edges, so every box lies inside; the boxes
\* (0,0,10,10), (20,0,10,10), (40,0,30,10) merge to (0,0,70,10).
C8_MergeIsEnclosingRectangle ==
    (pc = "merged" /\ item.boxes # <<>>) =>
        /\ \E b \in Range(item.boxes) : region.x = b[1]
        /\ \E b \in Range(item.boxes) : region.y = b[2]
        /\ \E b \in Range(item.boxes) : region.x + region.w = b[1] + b[3]
        /\ \E b \in Range(item.boxes) : region.y + region.h = b[2] + b[4]
        /\ \A b \in Range(item.boxes) : EnclosesBox(region, b)
        /\ item.boxes = <<<<0, 0, 10, 10>>, <<20, 0, 10, 10>>, <<40, 0, 30, 10>>>>
              => <<region.x, region.y, region.w, region.h>> = <<0, 0, 70, 10>>

C8_Witness ==
    /\ pc = "merged"
    /\ item.boxes = <<<<0, 0, 10, 10>>, <<20, 0, 10, 10>>, <<40, 0, 30, 10>>>>
    /\ region.w = 70

\* the lists of 1..MaxBoxes + 1 boxes with the same set of boxes as bs
SameBoxes(bs) ==
    UNION {{cs \in [1..n -> Range(bs)] : Range(cs) = Range(bs)} :
           n \in 1..(MaxBoxes + 1)}

\* C29: merge_boxes depends on the set of boxes alone: the boxes in another
\* order or with repetitions give the same region; the rectangle of the
\* region merged as a single box gives the region again; each edge of the
\* region is an edge of one of the boxes; and boxes with w >= 0 and h >= 0
\* give a region with w >= 0 and h >= 0.
C29_MergeDependsOnTheSetOfBoxes ==
    pc = "merged" =>
        /\ \A cs \in SameBoxes(item.boxes) :
              MergeBoxes([item EXCEPT !.boxes = cs]) = region
        /\ MergeBoxes([item EXCEPT !.boxes =
                          <<<<region.x, region.y, region.w, region.h>>>>]) = region
        /\ item.boxes # <<>> =>
              /\ region.x \in {b[1] : b \in Range(item.boxes)}
              /\ region.y \in {b[2] : b \in Range(item.boxes)}
              /\ region.x + region.w \in {b[1] + b[3] : b \in Range(item.boxes)}
              /\ region.y + region.h \in {b[2] + b[4] : b \in Range(item.boxes)}
        /\ (\A b \in Range(item.boxes) : b[3] >= 0 /\ b[4] >= 0)
              => region.w >= 0 /\ region.h >= 0

\* a box, a box left of and below it, and the first box again merged to a
\* rectangle that is none of the boxes
C29_Witness ==
    /\ pc = "merged"
    /\ item.boxes = <<<<20, 0, 10, 10>>, <<5, 12, 20, 8>>, <<20, 0, 10, 10>>>>
    /\ <<region.x, region.y, region.w, region.h>> = <<5, 0, 25, 20>>

\* C9: build_regions gives one region per item, in the order of the items:
\* region i is merge_boxes of item i, with the item's type and text,
\* selected and not manual.
C9_BuildRegionsIsOneToOne ==
    pc = "built" =>
        /\ Len(regions) = Len(detections)
        /\ \A i \in 1..Len(detections) :
              /\ regions[i] = MergeBoxes(detections[i])
              /\ regions[i].pii_type = detections[i].pii_type
              /\ regions[i].text = detections[i].text
              /\ regions[i].selected /\ ~regions[i].manual

\* two different items, one of them without boxes, were built in order
C9_Witness ==
    /\ pc = "built"
    /\ Len(regions) = MaxItems
    /\ detections[1].boxes = <<>>
    /\ regions[1].pii_type # regions[2].pii_type

-----------------------------------------------------------------------------
(* Properties of apply_redaction                                           *)

\* pixel p lies in the rectangle of region r: columns x..x+w-1, rows y..y+h-1
InRect(p, r) == /\ r.x <= p[1] /\ p[1] < r.x + r.w
                /\ r.y <= p[2] /\ p[2] < r.y + r.h

CoveredBySelected(p) ==
    \E k \in 1..Len(redact_regions) :
        redact_regions[k].selected /\ InRect(p, redact_regions[k])

Redacted == pc = "redacted"

\* C1: a region with selected = false is never redacted, whatever the style:
\* the result is the one obtained without that region, and a pixel of an
\* unselected region that no selected region covers is the source pixel.
C1_UnselectedNeverRedacted ==
    Redacted =>
        \A i \in 1..Len(redact_regions) :
            ~redact_regions[i].selected =>
                /\ result = ApplyRedaction(image, RemoveAt(redact_regions, i), style)
                /\ \A p \in DOMAIN image.px :
                      (InRect(p, redact_regions[i]) /\ ~CoveredBySelected(p))
                          => result.px[p] = image.px[p]

\* C2: with the SOLID style every pixel inside the rectangle of a selected
\* region is black in the result and every pixel outside the rectangles of
\* all selected regions is the source pixel.
C2_SolidFillsExactlyTheRectangles ==
    (Redacted /\ style = "SOLID") =>
        \A p \in DOMAIN image.px :
            IF CoveredBySelected(p) THEN result.px[p] = Black
            ELSE result.px[p] = image.px[p]

\* C19: apply_redaction does not change its input: the pixels of the image
\* passed in and the regions passed in are after the call what they were
\* before, and the returned image is another object, of the same width and
\* height.
C19_InputIsNotMutated ==
    [][pc' = "redacted" =>
          /\ image' = image
          /\ redact_regions' = redact_regions
          /\ result'.owner # image.owner
          /\ result'.width = image.width /\ result'.height = image.height]_vars

\* a call that changed pixels in its result
C19_Witness ==
    /\ Redacted
    /\ result.px # image.px
    /\ \E k \in 1..Len(redact_regions) : ~redact_regions[k].selected

\* the rectangle of region r is empty or lies outside the image
OutsideImage(r) ==
    \/ r.w <= 0 \/ r.h <= 0
    \/ r.x + r.w <= 0 \/ r.y + r.h <= 0
    \/ r.x >= image.width \/ r.y >= image.height

\* C20: a selected region with w <= 0 or h <= 0 or with a rectangle that does
\* not intersect the image is skipped: the result is the one obtained
\* without it, and the result of a call with such regions alone has the
\* pixels of the source.
C20_DegenerateRegionsAreSkipped ==
    Redacted =>
        /\ \A i \in 1..Len(redact_regions) :
              (redact_regions[i].selected /\ OutsideImage(redact_regions[i]))
                  => result = ApplyRedaction(image, RemoveAt(redact_regions, i), style)
        /\ (\A i \in 1..Len(redact_regions) :
               redact_regions[i].selected /\ OutsideImage(redact_regions[i]))
              => result.px = image.px

\* a SOLID call with a region without width and a region below the image
C20_Witness ==
    /\ Redacted /\ style = "SOLID"
    /\ Len(redact_regions) = 2
    /\ redact_regions[1].selected /\ redact_regions[1].w = 0
    /\ redact_regions[2].selected /\ redact_regions[2].y >= image.height
    /\ result.px = image.px


\* the pixels of the image inside the rectangle of region r
InsideOf(r) == {p \in DOMAIN image.px : InRect(p, r)}

\* region r is selected and its rectangle lies partly inside and partly
\* outside the image
PartlyOutside(r) ==
    /\ r.selected /\ r.w > 0 /\ r.h > 0
    /\ InsideOf(r) # {}
    /\ \/ r.x < 0 \/ r.y < 0
       \/ r.x + r.w > image.width \/ r.y + r.h > image.height

\* the pixels the loop holds when it comes to region i
BeforeRegion(i) == ApplyRedaction(image, SubSeq(redact_regions, 1, i - 1), style).px

\* no selected region after region i shares a pixel with it
NotOverwritten(i) ==
    \A j \in (i + 1)..Len(redact_regions) :
        redact_regions[j].selected
            => InsideOf(redact_regions[j]) \cap InsideOf(redact_regions[i]) = {}

\* C21: the rectangle of a selected region partly outside the image is
\* clamped to the image before it is filled: the call ends, the result has
\* the pixels of the image and no others, and every pixel of the rectangle
\* inside the image is redacted from pixels inside the image alone: black
\* with SOLID, the mean of the clamped rectangle with BLUR, a pixel of the
\* clamped rectangle with PIXELATE.
C21_PartlyOutsideIsClamped ==
    Redacted =>
        /\ DOMAIN result.px = DOMAIN image.px
        /\ result.width = image.width /\ result.height = image.height
        /\ \A i \in 1..Len(redact_regions) :
              PartlyOutside(redact_regions[i]) =>
                  LET c    == InsideOf(redact_regions[i])
                      prev == BeforeRegion(i)
                  IN  CASE style = "SOLID" ->
                              \A p \in c : result.px[p] = Black
                        [] style = "BLUR" ->
                              NotOverwritten(i) =>
                                  \A p \in c :
                                      result.px[p] = SumPixels(prev, c) \div Cardinality(c)
                        [] style = "PIXELATE" ->
                              NotOverwritten(i) =>
                                  \A p \in c : \E q \in c : result.px[p] = prev[q]

\* a BLUR call with the region over the left edge alone: four pixels of it
\* are inside the image and were changed
C21_Witness ==
    /\ Redacted /\ style = "BLUR"
    /\ Len(redact_regions) = 1
    /\ PartlyOutside(redact_regions[1])
    /\ redact_regions[1].x < 0
    /\ Cardinality(InsideOf(redact_regions[1])) = 4
    /\ \E p \in InsideOf(redact_regions[1]) : result.px[p] # image.px[p]

\* C22: with the BLUR and PIXELATE styles every pixel outside the rectangles
\* of the selected regions is the pixel of the source image.
C22_BlurAndPixelateStayInside ==
    (Redacted /\ style \in {"BLUR", "PIXELATE"}) =>
        \A p \in DOMAIN image.px :
            ~CoveredBySelected(p) => result.px[p] = image.px[p]

\* a PIXELATE call that changed pixels inside a rectangle with pixels of the
\* image on every side of it
C22_Witness ==
    /\ Redacted /\ style = "PIXELATE"
    /\ result.px # image.px
    /\ \E k \in 1..Len(redact_regions) :
          /\ redact_regions[k].selected
          /\ redact_regions[k].x > 0 /\ redact_regions[k].y > 0
          /\ redact_regions[k].x + redact_regions[k].w < image.width
          /\ redact_regions[k].y + redact_regions[k].h < image.height
    /\ \E p \in DOMAIN image.px : ~CoveredBySelected(p)


-----------------------------------------------------------------------------
(* Properties of every entry point                                         *)

\* C23: empty input ends every stage at once and without error: detect_pii
\* of no tokens returns no items whatever the ignore list and the custom
\* rules, build_regions and apply_template_policy of no items return no
\* regions, and apply_redaction with no regions returns the pixels of the
\* source.
C23_EmptyInputShortCircuits ==
    /\ (pc \in {"detect_pii", "emails", "ips", "urls", "domains", "phones",
                "custom", "returned", "raised"} /\ tokens = <<>>)
          => /\ pc \in {"detect_pii", "returned"}
             /\ all_items = <<>>
    /\ (pc \in {"built", "policy_applied"} /\ detections = <<>>) => regions = <<>>
    /\ (pc = "redacted" /\ redact_regions = <<>>)
          => /\ result.px = image.px
             /\ result.width = image.width /\ result.height = image.height

\* detect_pii returned for no tokens and a rule list whose regex is too large
\* to compile
C23_Witness ==
    /\ pc = "returned" /\ tokens = <<>> /\ all_items = <<>>
    /\ CustomRaises(custom_rules)


-----------------------------------------------------------------------------
(* Properties of two invocations of detect_pii                             *)

Ended(c) == frames[c].pc \in {"returned", "raised"}

\* C25: detect_pii holds no state across invocations: however the steps of
\* two invocations are interleaved, an invocation that has ended has ended
\* as it does when run alone, with the same list of items, and two
\* invocations with the same arguments end with the same list.
C25_InvocationsDoNotInterfere ==
    pc = "two_calls" =>
        /\ \A c \in Calls :
              Ended(c) =>
                  LET alone == DetectPii(matcher, frames[c].tokens,
                                         frames[c].ignore_list,
                                         frames[c].custom_rules)
                  IN  /\ frames[c].pc = alone.pc
                      /\ frames[c].all_items = alone.all_items
        /\ ( /\ Ended(1) /\ Ended(2)
             /\ frames[1].tokens = frames[2].tokens
             /\ frames[1].ignore_list = frames[2].ignore_list
             /\ frames[1].custom_rules = frames[2].custom_rules )
              => frames[1].all_items = frames[2].all_items

\* the first invocation returned a PHONE item while the second, with the
\* same tokens, was inside its loop over the region hints with numbers
\* already seen
C25_Witness ==
    /\ pc = "two_calls"
    /\ frames[1].pc = "returned"
    /\ \E k \in 1..Len(frames[1].all_items) : frames[1].all_items[k].pii_type = "PHONE"
    /\ frames[2].pc = "phones" /\ frames[2].phone_pass = 3
    /\ frames[2].seen # {}
    /\ frames[2].tokens = frames[1].tokens


-----------------------------------------------------------------------------
(* Properties of BatchProcessor.run_batch                                    *)

\* the positions of the signals named sig in emitted
SignalsAt(sig) == {i \in 1..Len(emitted) : emitted[i].sig = sig}

\* image k of the list has had its progressUpdated signal
Started(k) == \E i \in SignalsAt("progressUpdated") : emitted[i].current = k

\* the positions of the fileProcessed signals of image k
ProcessedAt(k) ==
    {i \in SignalsAt("fileProcessed") : emitted[i].name = batch_images[k].name}

\* batchFinished comes at most once and last, and once when the call is over
FinishedOnceAndLast ==
    /\ SignalsAt("batchFinished") \subseteq {Len(emitted)}
    /\ pc = "finished" => SignalsAt("batchFinished") = {Len(emitted)}

\* when the call is over every started image has one fileProcessed signal
\* and every other image none, and after the start of an image the batch
\* ends as complete or as stopped, complete only with every image started
StartedImagesReported ==
    pc = "finished" =>
        /\ \A k \in 1..Len(batch_images) :
              Cardinality(ProcessedAt(k)) = (IF Started(k) THEN 1 ELSE 0)
        /\ Len(batch_images) > 0 /\ Started(1) =>
              /\ emitted[Len(emitted)].status \in {"Batch complete", "Batch stopped by user"}
              /\ emitted[Len(emitted)].status = "Batch complete" =>
                    \A k \in 1..Len(batch_images) : Started(k)

\* a step taken in the loop with should_stop set gives a signal to no
\* image but the one being processed, which is the image whose test of
\* should_stop (line 100) has passed: no step at the head of the loop gives
\* progressUpdated or fileProcessed
StopIsHonoured ==
    should_stop /\ pc \in {"loop", "progress", "mkdir", "process"} =>
        \A i \in (Len(emitted) + 1)..Len(emitted') :
            /\ emitted'[i].sig = "progressUpdated" =>
                  /\ pc = "progress"
                  /\ emitted'[i].current = image_idx + 1
            /\ emitted'[i].sig = "fileProcessed" =>
                  /\ pc = "process"
                  /\ emitted'[i].name = batch_images[image_idx + 1].name

\* C30: a call of run_batch emits batchFinished exactly once and no
\* progressUpdated or fileProcessed after it; once stop() has set
\* should_stop during the loop at most the image being processed completes
\* and no later image gets a signal; every image that was started gets
\* exactly one fileProcessed signal, and a failure on an image does not end
\* the batch.
C30_BatchSignals ==
    /\ [](FinishedOnceAndLast /\ StartedImagesReported)
    /\ [][StopIsHonoured]_vars

\* the signals and the stop flag taken alone, without the report on every
\* started image
BatchFinishedAndStop == []FinishedOnceAndLast /\ [][StopIsHonoured]_vars

\* a batch stopped while its second image was being processed
BatchStoppedInTheLoop ==
    /\ pc = "finished"
    /\ Len(batch_images) = 3
    /\ emitted[Len(emitted)] = BatchFinished("Batch stopped by user", 1, 1)
    /\ Started(2) /\ ~Started(3)

\* a batch that ended at the mkdir of the second image
BatchFailedAtAnImage ==
    /\ pc = "finished"
    /\ emitted[Len(emitted)].status = "Batch failed"
    /\ Started(2) /\ ProcessedAt(2) = {}

=============================================================================
